---- MODULE Spec2Model ----
(***************************************************************************)
(* Model of TOOL 2, the Wind Shade Calculator                              *)
(* (src/qwera_tools/algorithms/TOOL_2_Windshade_Calculator.py):            *)
(* the strip-sweep horizon scanner _compute_shadow_octant, the 1D gap fill *)
(* and 2D closing, the mask writer _write_shadow_mask and the row loop of  *)
(* processAlgorithm with its SAGA backend adapter.                         *)
(*                                                                         *)
(* Numbers.  A Python float is modelled as an integer count of units of    *)
(* 2^-21 (FScale units make 1.0), so 270.0 is 270 * FScale and the         *)
(* Float32 neighbours of 5.0 are 5 * FScale - 1 and 5 * FScale + 1.        *)
(* NaN and the infinities are the reserved codes NaN, PosInf, NegInf.      *)
(* A raster is a function on Cells(ny, nx), the pairs <<i, j>> of a row i  *)
(* and a column j, both counted from 0 as numpy does.  Cell sizes are      *)
(* whole metres.                                                           *)
(***************************************************************************)
EXTENDS Integers, Sequences, FiniteSets, TLC

VARIABLES
    params,        \* the parameters processAlgorithm is called with
    dem_info,      \* _prepare_dem's record: Z, mask_nd, nodata, ny, nx, cellx, celly
    rows,          \* the parameter table as _read_table returns it
    fat_shadow,    \* FAT_SHADOW parameter
    fat_kernel,    \* 3 or 2, from FAT_KERNEL
    saga_enabled,  \* the adapter state: TRUE = PREFERRED, FALSE = FALLBACK_ONLY
    canceled,      \* feedback.isCanceled()
    pc,            \* where processAlgorithm stands
    idx,           \* the row the loop is at (1-based, as enumerate(rows, start=1))
    cur,           \* the valid row being computed: az, alt, cval, name, out_path
    s_idx,         \* the strip the strip loop is at
    shadow,        \* the mask of the current row: the scanner's, or the backend's
    created,       \* the list of created outputs
    reported,      \* feedback.reportError calls, in order
    files,         \* rasters on disk, by output path
    calls,         \* backend invocations, in order: the index of the row
    shade,         \* the SHADE raster the backend returned for the current row
    result         \* how processAlgorithm ended

vars == <<params, dem_info, rows, fat_shadow, fat_kernel, saga_enabled, canceled,
          pc, idx, cur, s_idx, shadow, created, reported, files, calls, shade, result>>

(***************************************************************************)
(* Fixed-point arithmetic                                                  *)
(***************************************************************************)
FScale == 2^21

Fx(n) == n * FScale

\* the element of a set of one element: Only({e : v \in {d}}) is e with d
\* for v, and d is computed once however often e uses it
Only(S) == CHOOSE v \in S : TRUE

Abs(x) == IF x < 0 THEN -x ELSE x

Max2(a, b) == IF a >= b THEN a ELSE b

Min2(a, b) == IF a <= b THEN a ELSE b

\* floor(a / b), b # 0
FloorDiv(a, b) == IF b > 0 THEN a \div b ELSE (-a) \div (-b)

\* ceil(a / b), b # 0
CeilDiv(a, b) == -FloorDiv(-a, b)

\* Python's round(a / b): to the nearest integer, ties to the even one (b > 0)
RoundDiv(a, b) ==
    LET q == FloorDiv(a, b)
        r == a - q * b
    IN  IF 2 * r < b THEN q
        ELSE IF 2 * r > b THEN q + 1
        ELSE IF q % 2 = 0 THEN q ELSE q + 1

\* a * b for a fixed-point a >= 0 and a fixed-point b >= 0, rounded down to a
\* unit; split so that no intermediate product leaves 32 bits
MulFx(a, b) ==
    LET a1 == a \div 2048
        a0 == a % 2048
        b1 == b \div 1024
        b0 == b % 1024
    IN  a1 * b1 + ((2 * a1 * b0 + a0 * b1 + ((a0 * b0) \div 1024)) \div 2048)

\* the float codes that are not finite numbers
PosInf == 2^30 + (2^30 - 1)

NegInf == -(2^30 + (2^30 - 1))

NaN == 2^30 + (2^30 - 2)

IsFinite(v) == v \notin {NaN, PosInf, NegInf}

\* Python's None, kept apart from every float code
None == 2^30 + (2^30 - 3)

\* Two numbers below the fixed-point range have codes at the lower end of the
\* integers, in the order of the numbers they stand for: -3.4028235e38 (the
\* lowest finite float32) < -9999.0 < every number of the model.
F32Lowest == -(2^30 + (2^30 - 2))

\* -9999.0, line 297
Minus9999 == -(2^30 + (2^30 - 3))

\* a number held as a code
IsCoded(v) == v \in {F32Lowest, Minus9999}

(***************************************************************************)
(* The doubles of a scan.  Under a diagonal azimuth every coordinate of    *)
(* lines 484-549 is a whole multiple of cos 45 up to the rounding of the   *)
(* doubles.  M = 6369051672525773 is the significand of                    *)
(* math.cos(math.radians(45.0)) = 0.7071067811865476 = M * 2^-53, and the  *)
(* pair <<p, r>> is the double (p * M + r) * 2^-53.  The pairs carry the   *)
(* coordinates across the light (S), whose quotients lines 515-539 round.  *)
(***************************************************************************)
\* the lowest 16 bits of M
MLow == 15309

RECURSIVE BExp(_, _)
\* the m >= m0 with 2^m <= a < 2^(m + 1), a >= 1
BExp(a, m) == IF 2^(m + 1) <= a THEN BExp(a, m + 1) ELSE m

RECURSIVE KLog(_, _)
\* p * M has 53 + k bits: the spacing of the doubles at p * M * 2^-53 is 2^k units
KLog(p, k) == IF p * p < 2^(2 * k + 1) THEN k ELSE KLog(p, k + 1)

\* the double nearest to (p * M + r) * 2^-53, ties to the even significand
DRound(x) ==
    LET sg == IF x[1] < 0 THEN -1 ELSE 1
        p == sg * x[1]
        r == sg * x[2]
    IN  Only({LET rem == (p * (MLow % 2^k) + r) % 2^k
                  down == r - rem
                  bit == ((p * (MLow % 2^(k + 1)) + down) % 2^(k + 1)) \div 2^k
                  r2 == IF 2 * rem < 2^k \/ (2 * rem = 2^k /\ bit = 0)
                        THEN down ELSE down + 2^k
              IN  IF x[1] = 0 THEN x ELSE <<sg * p, sg * r2>> :
              k \in {KLog(p, 0)}})

\* n * x for an int n, x + y, x - y, -x, abs(x), x < y
DMul(n, x) == DRound(<<n * x[1], n * x[2]>>)

DAdd(x, y) == DRound(<<x[1] + y[1], x[2] + y[2]>>)

DSub(x, y) == DRound(<<x[1] - y[1], x[2] - y[2]>>)

DNeg(x) == <<-x[1], -x[2]>>

DLess(x, y) == x[1] < y[1] \/ (x[1] = y[1] /\ x[2] < y[2])

DAbs(x) == IF DLess(x, <<0, 0>>) THEN DNeg(x) ELSE x

\* a < b * M * 2^-53 for an integer a and an integer b > 0: M * 2^-53 is so
\* close to 1 / sqrt(2) that no quotient a / b lies between the two
LessC(a, b) == a <= 0 \/ 2 * a * a < b * b

RECURSIVE QuotT(_, _, _)
\* the integer nearest to E / (B * M * 2^-53), from t on, E >= 0
QuotT(E, B, t) == IF LessC(2 * E, (2 * t + 1) * B) THEN t ELSE QuotT(E, B, t + 1)

\* The double x / y, y.p # 0, with q0 = x.p / y.p the quotient in exact
\* arithmetic.  frac: q0 is no multiple of 1/2, and x / y lies next to it.
\* Otherwise q0 = h / 2, and x / y is q0 plus t spacings of the doubles on
\* that side of q0; for h = 0 it is a tiny number of the sign t, of a magnitude
\* above 2^-53 if big.
Quot(x, y) ==
    LET sgy == IF y[1] < 0 THEN -1 ELSE 1
        p1 == sgy * x[1]
        r1 == sgy * x[2]
        p2 == sgy * y[1]
        r2 == sgy * y[2]
        frac == (2 * p1) % p2 # 0
        h == (2 * p1) \div p2
        E2 == 2 * r1 - h * r2
        sgE == IF E2 > 0 THEN 1 ELSE IF E2 < 0 THEN -1 ELSE 0
        P == 2^BExp(Abs(h), 0)
        away == (E2 > 0) = (h > 0)
        B == IF away \/ Abs(h) # P THEN 2 * P * p2 ELSE P * p2
    IN  [frac |-> frac, p1 |-> p1, p2 |-> p2, h |-> h,
         t |-> IF frac THEN 0
               ELSE IF h = 0 THEN sgE
               ELSE sgE * QuotT(Abs(E2), B, 0),
         big |-> ~frac /\ h = 0 /\ ~LessC(Abs(E2), 2 * p2)]

IsPow2(n) == n > 0 /\ n = 2^BExp(n, 0)

\* int(round(x / y)), lines 515-516
RoundQuot(x, y) ==
    Only({IF q.frac THEN RoundDiv(q.p1, q.p2)
          ELSE IF q.h % 2 = 0 THEN q.h \div 2
          ELSE IF q.t > 0 THEN (q.h + 1) \div 2
          ELSE IF q.t < 0 THEN (q.h - 1) \div 2
          ELSE RoundDiv(q.h, 2) :
          q \in {Quot(x, y)}})

\* int(math.floor(x / y - 1)), line 538
FloorMinus1(x, y) ==
    Only({LET n == q.h \div 2
          IN  IF q.frac THEN FloorDiv(q.p1 - q.p2, q.p2)
              ELSE IF q.h % 2 # 0 THEN FloorDiv(q.h - 2, 2)
              ELSE IF n = 0 THEN (IF q.t < 0 /\ q.big THEN -2 ELSE -1)
              ELSE IF q.t < 0 /\ ~(n < 0 /\ IsPow2(1 - n) /\ q.t = -1) THEN n - 2
              ELSE n - 1 :
          q \in {Quot(x, y)}})

\* int(math.ceil(x / y + 1)), line 539
CeilPlus1(x, y) ==
    Only({LET n == q.h \div 2
          IN  IF q.frac THEN CeilDiv(q.p1 + q.p2, q.p2)
              ELSE IF q.h % 2 # 0 THEN CeilDiv(q.h + 2, 2)
              ELSE IF n = 0 THEN (IF q.t > 0 /\ q.big THEN 2 ELSE 1)
              ELSE IF q.t > 0 /\ ~(n > 0 /\ IsPow2(n + 1) /\ q.t = 1) THEN n + 2
              ELSE n + 1 :
          q \in {Quot(x, y)}})

(***************************************************************************)
(* The doubles of lines 467-575.  A double is 0.0 or                       *)
(* s * (h * 2^28 + l) * 2^e with the sign s, 2^24 <= h < 2^25 and          *)
(* 0 <= l < 2^28: the 53 bits of its significand in two parts.  Products   *)
(* and sums are the exact ones rounded to the nearest double, ties to the  *)
(* even significand, as the machine rounds them.                           *)
(***************************************************************************)
F64(s, e, h, l) == [s |-> s, e |-> e, h |-> h, l |-> l]

F64Zero == F64(0, 0, 0, 0)

\* x with its significand one higher, if up
F64Inc(x, up) ==
    IF ~up THEN x
    ELSE IF x.l + 1 < 2^28 THEN [x EXCEPT !.l = x.l + 1]
    ELSE IF x.h + 1 < 2^25 THEN [x EXCEPT !.h = x.h + 1, !.l = 0]
    ELSE F64(x.s, x.e + 1, 2^24, 0)

\* the four digits of a significand to the base 2^14, lowest first
F64Digits(x) == <<x.l % 2^14, x.l \div 2^14, x.h % 2^14, x.h \div 2^14>>

\* the eight digits of the product of two significands, lowest first
F64Product(a, b) ==
    LET t0 == a[1] * b[1]
        t1 == a[1] * b[2] + a[2] * b[1] + t0 \div 2^14
        t2 == a[1] * b[3] + a[2] * b[2] + a[3] * b[1] + t1 \div 2^14
        t3 == a[1] * b[4] + a[2] * b[3] + a[3] * b[2] + a[4] * b[1] + t2 \div 2^14
        t4 == a[2] * b[4] + a[3] * b[3] + a[4] * b[2] + t3 \div 2^14
        t5 == a[3] * b[4] + a[4] * b[3] + t4 \div 2^14
        t6 == a[4] * b[4] + t5 \div 2^14
    IN  <<t0 % 2^14, t1 % 2^14, t2 % 2^14, t3 % 2^14, t4 % 2^14, t5 % 2^14,
          t6 % 2^14, t6 \div 2^14>>

\* the double nearest to s * p * 2^e for the digits p of a product, which has
\* 105 or 106 bits: r of the bits of p[4] and all below it are rounded away
F64MulRound(s, e, p, r) ==
    LET l == p[4] \div 2^r + p[5] * 2^(14 - r) + (p[6] % 2^r) * 2^(28 - r)
        h == p[6] \div 2^r + p[7] * 2^(14 - r) + p[8] * 2^(28 - r)
        rnd == (p[4] \div 2^(r - 1)) % 2 = 1
        sticky == p[4] % 2^(r - 1) # 0 \/ p[1] # 0 \/ p[2] # 0 \/ p[3] # 0
    IN  F64Inc(F64(s, e + 42 + r, h, l), rnd /\ (sticky \/ l % 2 = 1))

\* x * y
F64Mul(x, y) ==
    IF x.s = 0 \/ y.s = 0 THEN F64Zero
    ELSE Only({F64MulRound(x.s * y.s, x.e + y.e, p, IF p[8] >= 128 THEN 11 ELSE 10) :
               p \in {F64Product(F64Digits(x), F64Digits(y))}})

\* abs(x) < abs(y) for x and y other than 0.0
F64MagLess(x, y) ==
    x.e < y.e \/ (x.e = y.e /\ (x.h < y.h \/ (x.h = y.h /\ x.l < y.l)))

\* x < y
F64Less(x, y) ==
    IF x.s # y.s THEN x.s < y.s
    ELSE IF x.s = 0 THEN FALSE
    ELSE IF x.s = 1 THEN F64MagLess(x, y)
    ELSE F64MagLess(y, x)

\* l with its lowest bit set if bits were lost
F64Sticky(l, lost) == IF lost /\ l % 2 = 0 THEN l + 1 ELSE l

\* h * 2^28 + l shifted right by d >= 0 bits, as <<high part, low part>>; the
\* lowest bit stands for all the bits shifted out
F64Shr(h, l, d) ==
    IF d = 0 THEN <<h, l>>
    ELSE IF d < 28
    THEN <<h \div 2^d, F64Sticky(l \div 2^d + (h % 2^d) * 2^(28 - d), l % 2^d # 0)>>
    ELSE IF d < 56
    THEN <<0, F64Sticky(h \div 2^(d - 28), h % 2^(d - 28) # 0 \/ l # 0)>>
    ELSE <<0, 1>>

\* the double nearest to s * (h * 2^28 + l) * 2^e, a number of n bits,
\* 1 <= n <= 57
F64Fit(s, e, h, l, n) ==
    IF n <= 25 THEN F64(s, e - (53 - n), l * 2^(25 - n), 0)
    ELSE IF n <= 53
    THEN F64(s, e - (53 - n), h * 2^(53 - n) + l \div 2^(n - 25),
             (l % 2^(n - 25)) * 2^(53 - n))
    ELSE LET k == n - 53
             rem == l % 2^k
             l2 == l \div 2^k + (h % 2^k) * 2^(28 - k)
         IN  F64Inc(F64(s, e + k, h \div 2^k, l2),
                    rem > 2^(k - 1) \/ (rem = 2^(k - 1) /\ l2 % 2 = 1))

F64Normal(s, e, h, l) ==
    IF h = 0 /\ l = 0 THEN F64Zero
    ELSE F64Fit(s, e, h, l, IF h > 0 THEN 29 + BExp(h, IF h >= 2^26 THEN 26 ELSE 0)
                            ELSE IF l >= 2^30 THEN 31
                            ELSE 1 + BExp(l, 0))

\* a + b for abs(a) >= abs(b) > 0, on significands of three more bits
F64AddOrdered(a, b) ==
    LET ah == a.h * 8 + a.l \div 2^25
        al == (a.l % 2^25) * 8
        bs == F64Shr(b.h * 8 + b.l \div 2^25, (b.l % 2^25) * 8, a.e - b.e)
        lo == IF a.s = b.s THEN al + bs[2] ELSE al - bs[2]
        hi == IF a.s = b.s THEN ah + bs[1] + lo \div 2^28
              ELSE ah - bs[1] - (IF lo < 0 THEN 1 ELSE 0)
    IN  F64Normal(a.s, a.e - 3, hi, lo % 2^28)

\* x + y
F64Add(x, y) ==
    IF x.s = 0 THEN y
    ELSE IF y.s = 0 THEN x
    ELSE IF F64MagLess(x, y) THEN F64AddOrdered(y, x)
    ELSE F64AddOrdered(x, y)

\* -x
F64Neg(x) == [x EXCEPT !.s = -x.s]

\* abs(x)
F64Abs(x) == [x EXCEPT !.s = Abs(x.s)]

\* x - y
F64Sub(x, y) == F64Add(x, F64Neg(y))

\* float(n) for an int n
F64Int(n) == F64Normal(IF n < 0 THEN -1 ELSE 1, 0, 0, Abs(n))

\* the double u * 2^-21 for a whole number u of fixed-point units
F64Units(u) == F64Normal(IF u < 0 THEN -1 ELSE 1, -21, 0, Abs(u))

\* the whole number of fixed-point units nearest to x, ties to the even one,
\* abs(x) < 1024
F64ToUnits(x) ==
    LET k == -(x.e + 21)
        q == IF k >= 28 THEN x.h \div 2^(k - 28) ELSE x.h * 2^(28 - k) + x.l \div 2^k
        up == IF k = 28 THEN x.l > 2^27 \/ (x.l = 2^27 /\ q % 2 = 1)
              ELSE IF k > 28
              THEN x.h % 2^(k - 28) > 2^(k - 29)
                   \/ (x.h % 2^(k - 28) = 2^(k - 29) /\ (x.l > 0 \/ q % 2 = 1))
              ELSE x.l % 2^k > 2^(k - 1) \/ (x.l % 2^k = 2^(k - 1) /\ q % 2 = 1)
    IN  IF x.s = 0 \/ k >= 56 THEN 0
        ELSE x.s * (IF up THEN q + 1 ELSE q)

(***************************************************************************)
(* Solar geometry, lines 474-509                                           *)
(***************************************************************************)
\* math.cos(math.radians(t)) for t a multiple of 45 degrees
CosDeg(t) ==
    CASE t = 0 -> F64(1, -52, 16777216, 0)
      [] t = 45 -> F64(1, -53, 23726566, 109001677)
      [] t = 90 -> F64(1, -106, 18506339, 51665927)
      [] t = 135 -> F64(-1, -53, 23726566, 109001676)
      [] t = 180 -> F64(-1, -52, 16777216, 0)
      [] t = 225 -> F64(-1, -53, 23726566, 109001678)
      [] t = 270 -> F64(-1, -105, 27759508, 211716618)
      [] t = 315 -> F64(1, -53, 23726566, 109001675)

\* math.sin(math.radians(t)) for t a multiple of 45 degrees
SinDeg(t) ==
    CASE t = 0 -> F64Zero
      [] t = 45 -> F64(1, -53, 23726566, 109001676)
      [] t = 90 -> F64(1, -52, 16777216, 0)
      [] t = 135 -> F64(1, -53, 23726566, 109001677)
      [] t = 180 -> F64(1, -105, 18506339, 51665927)
      [] t = 225 -> F64(-1, -53, 23726566, 109001676)
      [] t = 270 -> F64(-1, -52, 16777216, 0)
      [] t = 315 -> F64(-1, -53, 23726566, 109001678)

\* the azimuths the tables cover: whole multiples of 45 degrees
AzSupported(az) == IsFinite(az) /\ az % Fx(45) = 0

\* AzrDeg with the azimuth taken for the mathematical angle
AzrDegMath(az) == (az % Fx(360)) \div FScale

\* (450.0 - float(az)) % 360.0, in whole degrees
AzrDeg(az) == ((Fx(450) - az) % Fx(360)) \div FScale

\* TanAlt with the cotangent in its place
TanAltCot(alt) ==
    CASE alt = Fx(45) -> F64(1, -52, 16777216, 1)
      [] alt = Fx(30) -> F64(1, -52, 29058990, 140004523)
      [] alt = Fx(60) -> F64(1, -53, 19372660, 93336350)
      [] alt = 629 -> F64(1, -35, 24451858, 7822279)

\* math.tan(math.radians(alt)) for the altitudes the model draws: 45, 30 and 60
\* degrees and 629 * 2^-21 degree
TanAlt(alt) ==
    CASE alt = Fx(45) -> F64(1, -53, 33554431, 268435455)
      [] alt = Fx(30) -> F64(1, -53, 19372660, 93336348)
      [] alt = Fx(60) -> F64(1, -52, 29058990, 140004520)
      [] alt = 629 -> F64(1, -70, 23022788, 107698858)

AltSupported(alt) == alt \in {Fx(45), Fx(30), Fx(60), 629}

\* dir_eps = 1e-9, line 496
DirEps == F64(1, -82, 18014398, 136763029)

\* abs(x) < dir_eps, lines 497 and 499
IsTiny(x) == F64Less(F64Abs(x), DirEps)

\* abs(x) > dir_eps, line 536
ExceedsEps(x) == F64Less(DirEps, F64Abs(x))

\* eps_m = 1e-5 * max(cellx, celly), line 471
EpsM(cellx, celly) ==
    F64Mul(F64(1, -69, 21990232, 149121265), F64Int(Max2(cellx, celly)))

\* horizon = -1e38, line 563
HorizonInit == F64(-1, 74, 19721522, 169255345)

\* float(Z[i, j]), line 568, for the Float32 number z of the grid
HeightOf(z) ==
    IF z = F32Lowest THEN F64(-1, 75, 33554430, 0)
    ELSE IF z = Minus9999 THEN F64(-1, -39, 20477952, 0)
    ELSE F64Units(z)

\* T = z + tan_alt * d, line 569
RayT(z, tan_alt, d) == F64Add(HeightOf(z), F64Mul(tan_alt, d))

\* T - eps_m, line 570
MinusEps(T, eps_m) == F64Sub(T, eps_m)

Cells(ny, nx) == (0 .. ny - 1) \X (0 .. nx - 1)

\* math.cos(azr) and math.sin(azr) as pairs, for the diagonal azr
CosSinD(azr) ==
    CASE azr = 45 -> [cos |-> <<1, 0>>, sin |-> <<1, -1>>]
      [] azr = 135 -> [cos |-> <<-1, 1>>, sin |-> <<1, 0>>]
      [] azr = 225 -> [cos |-> <<-1, -1>>, sin |-> <<-1, 1>>]
      [] azr = 315 -> [cos |-> <<1, -2>>, sin |-> <<-1, -1>>]

\* vx_col_x * x + vx_col_y * y for the pixel step (vx_col_x, vx_col_y) in metres,
\* lines 487-493
Project(vx, vy, x, y) == F64Add(F64Mul(F64Int(vx), x), F64Mul(F64Int(vy), y))

\* x with a tiny x taken for 0.0, lines 497-500
Untiny(x) == IF IsTiny(x) THEN F64Zero ELSE x

\* strip_w of lines 503-509 for the dS_col and dS_row of lines 497-500, which
\* are not both 0.0
StripWidth(dS_col, dS_row) ==
    Only({IF F64Less(DirEps, w) THEN w ELSE DirEps :
          w \in {IF dS_col.s = 0 THEN F64Abs(dS_row)
                 ELSE IF dS_row.s = 0 THEN F64Abs(dS_col)
                 ELSE IF F64Less(F64Abs(dS_row), F64Abs(dS_col)) THEN F64Abs(dS_row)
                 ELSE F64Abs(dS_col)}})

\* the direction vectors of one scan, lines 467-509, as doubles
Steps(cellx, celly, azr) ==
    Only({[dL_col |-> Project(cellx, 0, u[1], u[2]),
           dL_row |-> Project(0, -celly, u[1], u[2]),
           dS_col |-> Untiny(Project(cellx, 0, F64Neg(u[2]), u[1])),
           dS_row |-> Untiny(Project(0, -celly, F64Neg(u[2]), u[1]))] :
          u \in {<<F64Neg(CosDeg(azr)), F64Neg(SinDeg(azr))>>}})

\* the direction vectors and the strip range of one scan, lines 467-516: the
\* doubles (F), the whole numbers of fixed-point units nearest to them and, for
\* a diagonal azimuth, the coordinates across the light as pairs (D)
Geom(dem, az) ==
    LET cellx == dem.cellx
        celly == dem.celly
        azr == AzrDeg(az)
        diag == azr % 90 = 45
        corners == {<<0, 0>>, <<0, dem.nx - 1>>, <<dem.ny - 1, 0>>,
                    <<dem.ny - 1, dem.nx - 1>>}
    IN  Only({Only({[azr |-> azr, diag |-> diag, cellx |-> cellx, celly |-> celly,
                     dL_col |-> F64ToUnits(st.dL_col),
                     dL_row |-> F64ToUnits(st.dL_row),
                     dS_col |-> F64ToUnits(st.dS_col),
                     dS_row |-> F64ToUnits(st.dS_row),
                     strip_w |-> strip_w,
                     dL_colF |-> st.dL_col, dL_rowF |-> st.dL_row,
                     dS_colF |-> st.dS_col,
                     dS_colD |-> dS_colD, dS_rowD |-> dS_rowD, strip_wD |-> strip_wD,
                     s_idx_min |->
                         IF diag
                         THEN RoundQuot(CHOOSE v \in S_valsD :
                                            \A w \in S_valsD : ~DLess(w, v), strip_wD) - 1
                         ELSE RoundDiv(CHOOSE v \in S_vals :
                                           \A w \in S_vals : v <= w, strip_w) - 1,
                     s_idx_max |->
                         IF diag
                         THEN RoundQuot(CHOOSE v \in S_valsD :
                                            \A w \in S_valsD : ~DLess(v, w), strip_wD) + 1
                         ELSE RoundDiv(CHOOSE v \in S_vals :
                                           \A w \in S_vals : v >= w, strip_w) + 1] :
                    strip_w \in {F64ToUnits(StripWidth(st.dS_col, st.dS_row))},
                    S_vals \in {{c[1] * F64ToUnits(st.dS_row)
                                 + c[2] * F64ToUnits(st.dS_col) : c \in corners}},
                    strip_wD \in {IF ~diag THEN <<0, 0>>
                                  ELSE IF DLess(DAbs(dS_colD), DAbs(dS_rowD))
                                  THEN DAbs(dS_colD) ELSE DAbs(dS_rowD)},
                    S_valsD \in {IF ~diag THEN {}
                                 ELSE {DAdd(DMul(c[1], dS_rowD), DMul(c[2], dS_colD)) :
                                       c \in corners}}}) :
              st \in {Steps(cellx, celly, azr)},
              dS_colD \in {IF diag THEN DMul(cellx, DNeg(DNeg(CosSinD(azr).sin)))
                           ELSE <<0, 0>>},
              dS_rowD \in {IF diag THEN DMul(-celly, DNeg(CosSinD(azr).cos))
                           ELSE <<0, 0>>}})

\* S_ij of line 548 as a pair, under a diagonal azimuth
AcrossD(g, i, j) == DAdd(DMul(i, g.dS_rowD), DMul(j, g.dS_colD))

\* L_ij = i * dL_row + j * dL_col, line 551
AlongF(g, i, j) == F64Add(F64Mul(F64Int(i), g.dL_rowF), F64Mul(F64Int(j), g.dL_colF))

(***************************************************************************)
(* _prepare_dem, lines 280-320                                             *)
(***************************************************************************)
RECURSIVE Float32Step(_, _)
\* the spacing of the Float32 numbers around the magnitude av (24 significant bits)
Float32Step(av, p) == IF av \div p < 2^24 THEN p ELSE Float32Step(av, 2 * p)

\* astype(np.float32): to the nearest Float32, ties to even; -9999.0 and the
\* lowest float32 are Float32 numbers
ToFloat32(v) ==
    IF ~IsFinite(v) \/ IsCoded(v) THEN v
    ELSE LET p == Float32Step(Abs(v), 1) IN RoundDiv(v, p) * p

\* raster: [ny, nx, cellx, celly, nodata, band], band the values of band 1 and
\* nodata the band's GetNoDataValue() (None when the band has none). Z is the
\* band as Float32; the comparison Z == nodata is made in Float32 as well;
\* Z[mask_nd] = np.nan
PrepareDem(raster) ==
    LET nodata == IF raster.nodata = None THEN Minus9999 ELSE raster.nodata
        Z == [c \in Cells(raster.ny, raster.nx) |-> ToFloat32(raster.band[c])]
        mask_nd == [c \in Cells(raster.ny, raster.nx) |->
                       ~IsFinite(Z[c]) \/ Z[c] = ToFloat32(nodata)]
    IN  [Z |-> [c \in Cells(raster.ny, raster.nx) |-> IF mask_nd[c] THEN NaN ELSE Z[c]],
         mask_nd |-> mask_nd,
         nodata |-> nodata,
         ny |-> raster.ny, nx |-> raster.nx,
         cellx |-> raster.cellx, celly |-> raster.celly]

(***************************************************************************)
(* Strip partitioner, lines 531-560                                        *)
(***************************************************************************)
\* JRange whose window is clamped to column 1 at its lower end
JRangeFromOne(dem, g, sx, i) ==
    LET S_target == sx * g.strip_w
        num == S_target - i * g.dS_row
        numD == DSub(DMul(sx, g.strip_wD), DMul(i, g.dS_rowD))
    IN  IF ExceedsEps(g.dS_colF)
        THEN Only({[k \in 1 .. Max2(0, j1 - j0 + 1) |-> j0 + k - 1] :
                   j0 \in {Max2(1, IF g.diag THEN FloorMinus1(numD, g.dS_colD)
                                   ELSE FloorDiv(num, g.dS_col) - 1)},
                   j1 \in {Min2(dem.nx - 1, IF g.diag THEN CeilPlus1(numD, g.dS_colD)
                                            ELSE CeilDiv(num, g.dS_col) + 1)}})
        ELSE IF 2 * Abs(i * g.dS_row - S_target) > g.strip_w
             THEN << >>
             ELSE [k \in 1 .. dem.nx |-> k - 1]

\* the columns j_range scans in row i for strip sx, ascending (lines 536-545);
\* j_star is a double under a diagonal azimuth and an exact quotient of whole
\* numbers under a cardinal one
JRange(dem, g, sx, i) ==
    LET S_target == sx * g.strip_w
        num == S_target - i * g.dS_row
        numD == DSub(DMul(sx, g.strip_wD), DMul(i, g.dS_rowD))
    IN  IF ExceedsEps(g.dS_colF)
        THEN Only({[k \in 1 .. Max2(0, j1 - j0 + 1) |-> j0 + k - 1] :
                   j0 \in {Max2(0, IF g.diag THEN FloorMinus1(numD, g.dS_colD)
                                   ELSE FloorDiv(num, g.dS_col) - 1)},
                   j1 \in {Min2(dem.nx - 1, IF g.diag THEN CeilPlus1(numD, g.dS_colD)
                                            ELSE CeilDiv(num, g.dS_col) + 1)}})
        ELSE IF 2 * Abs(i * g.dS_row - S_target) > g.strip_w
             THEN << >>
             ELSE [k \in 1 .. dem.nx |-> k - 1]

\* abs(S_ij - S_target) <= half_w, line 549.  Under a cardinal azimuth the
\* coordinates are whole numbers of metres.  Under a diagonal one the doubles
\* decide: a cell that lies half a strip width from S_target in exact
\* arithmetic is in one of its two strips, in both, or in neither.
InStrip(g, sx, i, j) ==
    IF g.diag
    THEN Only({~DLess(g.strip_wD, <<2 * dD[1], 2 * dD[2]>>) :
               dD \in {DAbs(DSub(AcrossD(g, i, j), DMul(sx, g.strip_wD)))}})
    ELSE 2 * Abs(i * g.dS_row + j * g.dS_col - sx * g.strip_w) <= g.strip_w

\* the (L_ij, i, j) tuples row i appends to cells_i
RowCells(dem, g, sx, i) ==
    Only({[k \in 1 .. Len(js) |-> <<AlongF(g, i, js[k]), i, js[k]>>] :
          js \in {SelectSeq(JRange(dem, g, sx, i),
                            LAMBDA j : InStrip(g, sx, i, j) /\ ~dem.mask_nd[<<i, j>>])}})

RECURSIVE CollectCells(_, _, _, _)
\* cells_i as the loop over i = 0 .. ny - 1 leaves it, rows from i on
CollectCells(dem, g, sx, i) ==
    IF i >= dem.ny THEN << >>
    ELSE RowCells(dem, g, sx, i) \o CollectCells(dem, g, sx, i + 1)

RECURSIVE InsertByL(_, _)
\* x put behind every element whose key is not larger: the sort is stable
InsertByL(sorted, x) ==
    IF sorted = << >> THEN <<x>>
    ELSE IF ~F64Less(x[1], sorted[Len(sorted)][1]) THEN Append(sorted, x)
    ELSE Append(InsertByL(SubSeq(sorted, 1, Len(sorted) - 1), x), sorted[Len(sorted)])

RECURSIVE SortByL(_)
\* cells_i.sort(key=lambda t: t[0])
SortByL(cells) ==
    IF cells = << >> THEN << >>
    ELSE InsertByL(SortByL(SubSeq(cells, 1, Len(cells) - 1)), cells[Len(cells)])

\* the sorted cell list of strip sx
StripCells(dem, g, sx) == SortByL(CollectCells(dem, g, sx, 0))

(***************************************************************************)
(* Horizon scanner, lines 562-575                                          *)
(***************************************************************************)
\* the body of the loop of lines 566-575 for the cell at (i, j) and distance d:
\* whether the cell is marked, the horizon behind it, and whether the loop ends
HorizonStep(z, tan_alt, eps_m, maxd, d, horizon) ==
    Only({[mark |-> F64Less(MinusEps(T, eps_m), horizon),
           horizon |-> IF F64Less(horizon, T) THEN T ELSE horizon,
           stop |-> maxd > 0 /\ F64Less(F64Units(maxd), d)] :
          T \in {RayT(z, tan_alt, d)}})

RECURSIVE HorizonPass(_, _, _, _, _, _, _, _, _)
\* the classification loop from the k-th cell on
HorizonPass(dem, g, cells, tan_alt, eps_m, maxd, k, horizon, sh) ==
    IF k > Len(cells) THEN sh
    ELSE LET c == <<cells[k][2], cells[k][3]>>
             st == HorizonStep(dem.Z[c], tan_alt, eps_m, maxd,
                               F64Sub(cells[k][1], cells[1][1]), horizon)
             sh2 == IF st.mark THEN [sh EXCEPT ![c] = TRUE] ELSE sh
         IN  IF st.stop THEN sh2
             ELSE HorizonPass(dem, g, cells, tan_alt, eps_m, maxd, k + 1, st.horizon, sh2)

(***************************************************************************)
(* 1D gap fill, lines 577-600                                              *)
(***************************************************************************)
RECURSIVE RunEnd(_, _)
\* the last index of the run of False that starts at k
RunEnd(vals, k) ==
    IF k + 1 <= Len(vals) /\ ~vals[k + 1] THEN RunEnd(vals, k + 1) ELSE k

\* GapFill that fills a bounded run of any length
GapFillAnyLength(vals, gap_max, k) ==
    [t \in 1 .. Len(vals) |->
        \/ vals[t]
        \/ /\ \E a \in 1 .. (t - 1) : vals[a]
           /\ \E b \in (t + 1) .. Len(vals) : vals[b]]

RECURSIVE GapFill(_, _, _)
\* the while loop over vals from index k on (1-based)
GapFill(vals, gap_max, k) ==
    IF k > Len(vals) THEN vals
    ELSE IF vals[k] THEN GapFill(vals, gap_max, k + 1)
    ELSE LET start == k
             end == RunEnd(vals, k)
             gap_len == end - start + 1
             left_true == start - 1 >= 1 /\ vals[start - 1]
             right_true == end + 1 <= Len(vals) /\ vals[end + 1]
             filled == IF left_true /\ right_true /\ gap_len <= gap_max
                       THEN [t \in 1 .. Len(vals) |->
                                IF start <= t /\ t <= end THEN TRUE ELSE vals[t]]
                       ELSE vals
         IN  GapFill(filled, gap_max, end + 1)

\* lines 578-600: the gap fill of one strip, read from and written back to mask sh
GapFillStrip(sh, cells, gap_max) ==
    LET n == Len(cells)
        Last(c) == CHOOSE k \in 1 .. n :
                      /\ <<cells[k][2], cells[k][3]>> = c
                      /\ \A m \in (k + 1) .. n : <<cells[m][2], cells[m][3]>> # c
    IN  IF n > 0 /\ gap_max > 0 /\ n >= 3
        THEN Only({[c \in DOMAIN sh |->
                       IF \E k \in 1 .. n : <<cells[k][2], cells[k][3]>> = c
                       THEN vals[Last(c)] ELSE sh[c]] :
                   vals \in {GapFill([k \in 1 .. n |-> sh[<<cells[k][2], cells[k][3]>>]],
                                     gap_max, 1)}})
        ELSE sh

\* one pass of the strip loop's body on mask sh, lines 531-600
ProcessStrip(dem, g, tan_alt, eps_m, maxd, gap_max, sh, s) ==
    Only({IF Len(cells) = 0 THEN sh
          ELSE Only({GapFillStrip(sh1, cells, gap_max) :
                     sh1 \in {HorizonPass(dem, g, cells, tan_alt, eps_m, maxd, 1,
                                          HorizonInit, sh)}}) :
          cells \in {StripCells(dem, g, s)}})

(***************************************************************************)
(* 2D closing and fat dilation, lines 605-635                              *)
(***************************************************************************)
\* a cell of m padded with False
Padded(m, c) == c \in DOMAIN m /\ m[c]

\* _binary_dilate(mask_bool, kernel_size)
BinaryDilate(m, kernel_size) ==
    IF kernel_size = 2
    THEN [c \in DOMAIN m |->
             \E a \in {-1, 0}, b \in {-1, 0} : Padded(m, <<c[1] + a, c[2] + b>>)]
    ELSE [c \in DOMAIN m |->
             \E a \in {-1, 0, 1}, b \in {-1, 0, 1} : Padded(m, <<c[1] + a, c[2] + b>>)]

Complement(m) == [c \in DOMAIN m |-> ~m[c]]

\* Closing without the erosion
ClosingDilateOnly(m) == BinaryDilate(m, 3)

\* an opening in the place of the closing: erosion first, dilation second
ClosingAsOpening(m) == BinaryDilate(Complement(BinaryDilate(Complement(m), 3)), 3)

\* d1 = dilate(shadow); e1 = ~dilate(~d1)
Closing(m) == Complement(BinaryDilate(Complement(BinaryDilate(m, 3)), 3))

\* Refine without the fat dilation
RefineNoFat(dem, sh, fat, kernel) ==
    Closing([c \in DOMAIN sh |-> IF dem.mask_nd[c] THEN FALSE ELSE sh[c]])

\* lines 605-635: nodata forced to False, closing, optional fat dilation
Refine(dem, sh, fat, kernel) ==
    LET cleared == [c \in DOMAIN sh |-> IF dem.mask_nd[c] THEN FALSE ELSE sh[c]]
        closed == Closing(cleared)
    IN  IF fat THEN BinaryDilate(closed, kernel) ELSE closed

\* _close_and_optionally_dilate(mask_bool, extra_dilate, kernel_size), lines 423-451
CloseAndOptionallyDilate(mask_bool, extra_dilate, kernel_size) ==
    LET e1 == Closing(mask_bool)
    IN  IF extra_dilate THEN BinaryDilate(e1, kernel_size) ELSE e1

RECURSIVE StripLoop(_, _, _, _, _, _, _, _, _)
\* the strip loop from strip s to strip last, without cancellation
StripLoop(dem, g, tan_alt, eps_m, maxd, gap_max, sh, s, last) ==
    IF s > last THEN sh
    ELSE StripLoop(dem, g, tan_alt, eps_m, maxd, gap_max,
                   ProcessStrip(dem, g, tan_alt, eps_m, maxd, gap_max, sh, s),
                   s + 1, last)

\* np.zeros((ny, nx), dtype=bool)
NoShadow(dem) == [c \in Cells(dem.ny, dem.nx) |-> FALSE]

(***************************************************************************)
(* Mask writer, lines 322-351                                              *)
(***************************************************************************)
\* IsClass5 with the override never taken
IsClass5Never(c) == FALSE

\* IsClass5 with the override taken for every constant
IsClass5Always(c) == TRUE

\* abs(c - 5.0) < 1e-6, with 1e-6 rounded up to a unit
IsClass5(c) == IsFinite(c) /\ Abs(c - Fx(5)) < CeilDiv(FScale, 1000000)

\* the test of line 336
ShapeMismatch(dem, shadow_bool) == DOMAIN shadow_bool # Cells(dem.ny, dem.nx)

\* the array `out` that _write_shadow_mask hands to GDAL
\* WriteShadowMask without the last assignment, out[mask_nd] = nodata
WriteShadowMaskNoNodata(dem, shadow_bool, const_val) ==
    LET sh == [c \in Cells(dem.ny, dem.nx) |->
                  IF dem.mask_nd[c] THEN FALSE ELSE shadow_bool[c]]
        mask_le == [c \in Cells(dem.ny, dem.nx) |->
                       ~dem.mask_nd[c] /\ IsFinite(dem.Z[c]) /\ dem.Z[c] > 0]
        out == [c \in Cells(dem.ny, dem.nx) |-> ToFloat32(IF sh[c] THEN const_val ELSE 0)]
    IN  IF IsClass5(const_val)
        THEN [c \in Cells(dem.ny, dem.nx) |-> IF mask_le[c] THEN Fx(5) ELSE out[c]]
        ELSE out

\* lines 322-351: the grid _write_shadow_mask stores
WriteShadowMask(dem, shadow_bool, const_val) ==
    LET sh == [c \in Cells(dem.ny, dem.nx) |->
                  IF dem.mask_nd[c] THEN FALSE ELSE shadow_bool[c]]
        mask_le == [c \in Cells(dem.ny, dem.nx) |->
                       ~dem.mask_nd[c] /\ IsFinite(dem.Z[c]) /\ dem.Z[c] > 0]
        out == [c \in Cells(dem.ny, dem.nx) |-> ToFloat32(IF sh[c] THEN const_val ELSE 0)]
        out5 == IF IsClass5(const_val)
                THEN [c \in Cells(dem.ny, dem.nx) |-> IF mask_le[c] THEN Fx(5) ELSE out[c]]
                ELSE out
    IN  [c \in Cells(dem.ny, dem.nx) |->
            IF dem.mask_nd[c] THEN ToFloat32(dem.nodata) ELSE out5[c]]

\* shadow[mask_nd] = False, line 339: shadow is the caller's array (line 335
\* takes it without a copy), so the caller's mask is cleared as well
ClearNodata(dem, sh) == [c \in DOMAIN sh |-> sh[c] /\ ~dem.mask_nd[c]]

(***************************************************************************)
(* Table values: _to_float (lines 165-174), _slug (lines 176-181) and the  *)
(* rows of _read_csv / _read_excel_ogr (lines 212-218, 240-246).  A string *)
(* is the sequence of the code points of its characters, as ord gives      *)
(* them; Text writes one from its printable ASCII characters.              *)
(***************************************************************************)
\* the printable ASCII characters, code points 32 to 126 (the grave accent,
\* code point 96, by its name)
Ascii ==
    <<" ", "!", "\"", "#", "$", "%", "&", "'", "(", ")", "*", "+", ",", "-", ".", "/",
      "0", "1", "2", "3", "4", "5", "6", "7", "8", "9", ":", ";", "<", "=", ">", "?",
      "@", "A", "B", "C", "D", "E", "F", "G", "H", "I", "J", "K", "L", "M", "N", "O",
      "P", "Q", "R", "S", "T", "U", "V", "W", "X", "Y", "Z", "[", "\\", "]", "^", "_",
      "grave", "a", "b", "c", "d", "e", "f", "g", "h", "i", "j", "k", "l", "m", "n", "o",
      "p", "q", "r", "s", "t", "u", "v", "w", "x", "y", "z", "{", "|", "}", "~">>

\* ord(ch) of a printable ASCII character
Ord(ch) == 31 + (CHOOSE k \in DOMAIN Ascii : Ascii[k] = ch)

\* the string of the given printable ASCII characters
Text(chars) == [k \in DOMAIN chars |-> Ord(chars[k])]

\* the characters str.strip() removes (those with ch.isspace()): U+0009-000D,
\* U+001C-0020, U+0085, U+00A0, U+1680, U+2000-200A, U+2028, U+2029, U+202F,
\* U+205F and U+3000
Whitespace ==
    (9 .. 13) \cup (28 .. 32) \cup {133, 160, 5760} \cup (8192 .. 8202)
        \cup {8232, 8233, 8239, 8287, 12288}

\* the code points of the digit zero of every decimal number system of Unicode;
\* the digits one to nine follow each of them
DecimalZeros ==
    <<48, 1632, 1776, 1984, 2406, 2534, 2662, 2790, 2918, 3046,
      3174, 3302, 3430, 3558, 3664, 3792, 3872, 4160, 4240, 6112,
      6160, 6470, 6608, 6784, 6800, 6992, 7088, 7232, 7248, 42528,
      43216, 43264, 43472, 43504, 43600, 44016, 65296, 66720, 68912, 69734,
      69872, 69942, 70096, 70384, 70736, 70864, 71248, 71360, 71472, 71904,
      72016, 72784, 73040, 73120, 92768, 92864, 93008, 120782, 120792, 120802,
      120812, 120822, 123200, 123632, 125264, 130032>>

\* the ranges of the code points with ch.isalnum()
AlnumRanges ==
    << <<48, 57>>, <<65, 90>>, <<97, 122>>, <<170, 170>>, <<178, 179>>, <<181, 181>>,
      <<185, 186>>, <<188, 190>>, <<192, 214>>, <<216, 246>>, <<248, 705>>, <<710, 721>>,
      <<736, 740>>, <<748, 748>>, <<750, 750>>, <<880, 884>>, <<886, 887>>, <<890, 893>>,
      <<895, 895>>, <<902, 902>>, <<904, 906>>, <<908, 908>>, <<910, 929>>, <<931, 1013>>,
      <<1015, 1153>>, <<1162, 1327>>, <<1329, 1366>>, <<1369, 1369>>, <<1376, 1416>>, <<1488, 1514>>,
      <<1519, 1522>>, <<1568, 1610>>, <<1632, 1641>>, <<1646, 1647>>, <<1649, 1747>>, <<1749, 1749>>,
      <<1765, 1766>>, <<1774, 1788>>, <<1791, 1791>>, <<1808, 1808>>, <<1810, 1839>>, <<1869, 1957>>,
      <<1969, 1969>>, <<1984, 2026>>, <<2036, 2037>>, <<2042, 2042>>, <<2048, 2069>>, <<2074, 2074>>,
      <<2084, 2084>>, <<2088, 2088>>, <<2112, 2136>>, <<2144, 2154>>, <<2160, 2183>>, <<2185, 2190>>,
      <<2208, 2249>>, <<2308, 2361>>, <<2365, 2365>>, <<2384, 2384>>, <<2392, 2401>>, <<2406, 2415>>,
      <<2417, 2432>>, <<2437, 2444>>, <<2447, 2448>>, <<2451, 2472>>, <<2474, 2480>>, <<2482, 2482>>,
      <<2486, 2489>>, <<2493, 2493>>, <<2510, 2510>>, <<2524, 2525>>, <<2527, 2529>>, <<2534, 2545>>,
      <<2548, 2553>>, <<2556, 2556>>, <<2565, 2570>>, <<2575, 2576>>, <<2579, 2600>>, <<2602, 2608>>,
      <<2610, 2611>>, <<2613, 2614>>, <<2616, 2617>>, <<2649, 2652>>, <<2654, 2654>>, <<2662, 2671>>,
      <<2674, 2676>>, <<2693, 2701>>, <<2703, 2705>>, <<2707, 2728>>, <<2730, 2736>>, <<2738, 2739>>,
      <<2741, 2745>>, <<2749, 2749>>, <<2768, 2768>>, <<2784, 2785>>, <<2790, 2799>>, <<2809, 2809>>,
      <<2821, 2828>>, <<2831, 2832>>, <<2835, 2856>>, <<2858, 2864>>, <<2866, 2867>>, <<2869, 2873>>,
      <<2877, 2877>>, <<2908, 2909>>, <<2911, 2913>>, <<2918, 2927>>, <<2929, 2935>>, <<2947, 2947>>,
      <<2949, 2954>>, <<2958, 2960>>, <<2962, 2965>>, <<2969, 2970>>, <<2972, 2972>>, <<2974, 2975>>,
      <<2979, 2980>>, <<2984, 2986>>, <<2990, 3001>>, <<3024, 3024>>, <<3046, 3058>>, <<3077, 3084>>,
      <<3086, 3088>>, <<3090, 3112>>, <<3114, 3129>>, <<3133, 3133>>, <<3160, 3162>>, <<3165, 3165>>,
      <<3168, 3169>>, <<3174, 3183>>, <<3192, 3198>>, <<3200, 3200>>, <<3205, 3212>>, <<3214, 3216>>,
      <<3218, 3240>>, <<3242, 3251>>, <<3253, 3257>>, <<3261, 3261>>, <<3293, 3294>>, <<3296, 3297>>,
      <<3302, 3311>>, <<3313, 3314>>, <<3332, 3340>>, <<3342, 3344>>, <<3346, 3386>>, <<3389, 3389>>,
      <<3406, 3406>>, <<3412, 3414>>, <<3416, 3425>>, <<3430, 3448>>, <<3450, 3455>>, <<3461, 3478>>,
      <<3482, 3505>>, <<3507, 3515>>, <<3517, 3517>>, <<3520, 3526>>, <<3558, 3567>>, <<3585, 3632>>,
      <<3634, 3635>>, <<3648, 3654>>, <<3664, 3673>>, <<3713, 3714>>, <<3716, 3716>>, <<3718, 3722>>,
      <<3724, 3747>>, <<3749, 3749>>, <<3751, 3760>>, <<3762, 3763>>, <<3773, 3773>>, <<3776, 3780>>,
      <<3782, 3782>>, <<3792, 3801>>, <<3804, 3807>>, <<3840, 3840>>, <<3872, 3891>>, <<3904, 3911>>,
      <<3913, 3948>>, <<3976, 3980>>, <<4096, 4138>>, <<4159, 4169>>, <<4176, 4181>>, <<4186, 4189>>,
      <<4193, 4193>>, <<4197, 4198>>, <<4206, 4208>>, <<4213, 4225>>, <<4238, 4238>>, <<4240, 4249>>,
      <<4256, 4293>>, <<4295, 4295>>, <<4301, 4301>>, <<4304, 4346>>, <<4348, 4680>>, <<4682, 4685>>,
      <<4688, 4694>>, <<4696, 4696>>, <<4698, 4701>>, <<4704, 4744>>, <<4746, 4749>>, <<4752, 4784>>,
      <<4786, 4789>>, <<4792, 4798>>, <<4800, 4800>>, <<4802, 4805>>, <<4808, 4822>>, <<4824, 4880>>,
      <<4882, 4885>>, <<4888, 4954>>, <<4969, 4988>>, <<4992, 5007>>, <<5024, 5109>>, <<5112, 5117>>,
      <<5121, 5740>>, <<5743, 5759>>, <<5761, 5786>>, <<5792, 5866>>, <<5870, 5880>>, <<5888, 5905>>,
      <<5919, 5937>>, <<5952, 5969>>, <<5984, 5996>>, <<5998, 6000>>, <<6016, 6067>>, <<6103, 6103>>,
      <<6108, 6108>>, <<6112, 6121>>, <<6128, 6137>>, <<6160, 6169>>, <<6176, 6264>>, <<6272, 6276>>,
      <<6279, 6312>>, <<6314, 6314>>, <<6320, 6389>>, <<6400, 6430>>, <<6470, 6509>>, <<6512, 6516>>,
      <<6528, 6571>>, <<6576, 6601>>, <<6608, 6618>>, <<6656, 6678>>, <<6688, 6740>>, <<6784, 6793>>,
      <<6800, 6809>>, <<6823, 6823>>, <<6917, 6963>>, <<6981, 6988>>, <<6992, 7001>>, <<7043, 7072>>,
      <<7086, 7141>>, <<7168, 7203>>, <<7232, 7241>>, <<7245, 7293>>, <<7296, 7304>>, <<7312, 7354>>,
      <<7357, 7359>>, <<7401, 7404>>, <<7406, 7411>>, <<7413, 7414>>, <<7418, 7418>>, <<7424, 7615>>,
      <<7680, 7957>>, <<7960, 7965>>, <<7968, 8005>>, <<8008, 8013>>, <<8016, 8023>>, <<8025, 8025>>,
      <<8027, 8027>>, <<8029, 8029>>, <<8031, 8061>>, <<8064, 8116>>, <<8118, 8124>>, <<8126, 8126>>,
      <<8130, 8132>>, <<8134, 8140>>, <<8144, 8147>>, <<8150, 8155>>, <<8160, 8172>>, <<8178, 8180>>,
      <<8182, 8188>>, <<8304, 8305>>, <<8308, 8313>>, <<8319, 8329>>, <<8336, 8348>>, <<8450, 8450>>,
      <<8455, 8455>>, <<8458, 8467>>, <<8469, 8469>>, <<8473, 8477>>, <<8484, 8484>>, <<8486, 8486>>,
      <<8488, 8488>>, <<8490, 8493>>, <<8495, 8505>>, <<8508, 8511>>, <<8517, 8521>>, <<8526, 8526>>,
      <<8528, 8585>>, <<9312, 9371>>, <<9450, 9471>>, <<10102, 10131>>, <<11264, 11492>>, <<11499, 11502>>,
      <<11506, 11507>>, <<11517, 11517>>, <<11520, 11557>>, <<11559, 11559>>, <<11565, 11565>>, <<11568, 11623>>,
      <<11631, 11631>>, <<11648, 11670>>, <<11680, 11686>>, <<11688, 11694>>, <<11696, 11702>>, <<11704, 11710>>,
      <<11712, 11718>>, <<11720, 11726>>, <<11728, 11734>>, <<11736, 11742>>, <<11823, 11823>>, <<12293, 12295>>,
      <<12321, 12329>>, <<12337, 12341>>, <<12344, 12348>>, <<12353, 12438>>, <<12445, 12447>>, <<12449, 12538>>,
      <<12540, 12543>>, <<12549, 12591>>, <<12593, 12686>>, <<12690, 12693>>, <<12704, 12735>>, <<12784, 12799>>,
      <<12832, 12841>>, <<12872, 12879>>, <<12881, 12895>>, <<12928, 12937>>, <<12977, 12991>>, <<13312, 19903>>,
      <<19968, 42124>>, <<42192, 42237>>, <<42240, 42508>>, <<42512, 42539>>, <<42560, 42606>>, <<42623, 42653>>,
      <<42656, 42735>>, <<42775, 42783>>, <<42786, 42888>>, <<42891, 42954>>, <<42960, 42961>>, <<42963, 42963>>,
      <<42965, 42969>>, <<42994, 43009>>, <<43011, 43013>>, <<43015, 43018>>, <<43020, 43042>>, <<43056, 43061>>,
      <<43072, 43123>>, <<43138, 43187>>, <<43216, 43225>>, <<43250, 43255>>, <<43259, 43259>>, <<43261, 43262>>,
      <<43264, 43301>>, <<43312, 43334>>, <<43360, 43388>>, <<43396, 43442>>, <<43471, 43481>>, <<43488, 43492>>,
      <<43494, 43518>>, <<43520, 43560>>, <<43584, 43586>>, <<43588, 43595>>, <<43600, 43609>>, <<43616, 43638>>,
      <<43642, 43642>>, <<43646, 43695>>, <<43697, 43697>>, <<43701, 43702>>, <<43705, 43709>>, <<43712, 43712>>,
      <<43714, 43714>>, <<43739, 43741>>, <<43744, 43754>>, <<43762, 43764>>, <<43777, 43782>>, <<43785, 43790>>,
      <<43793, 43798>>, <<43808, 43814>>, <<43816, 43822>>, <<43824, 43866>>, <<43868, 43881>>, <<43888, 44002>>,
      <<44016, 44025>>, <<44032, 55203>>, <<55216, 55238>>, <<55243, 55291>>, <<63744, 64109>>, <<64112, 64217>>,
      <<64256, 64262>>, <<64275, 64279>>, <<64285, 64285>>, <<64287, 64296>>, <<64298, 64310>>, <<64312, 64316>>,
      <<64318, 64318>>, <<64320, 64321>>, <<64323, 64324>>, <<64326, 64433>>, <<64467, 64829>>, <<64848, 64911>>,
      <<64914, 64967>>, <<65008, 65019>>, <<65136, 65140>>, <<65142, 65276>>, <<65296, 65305>>, <<65313, 65338>>,
      <<65345, 65370>>, <<65382, 65470>>, <<65474, 65479>>, <<65482, 65487>>, <<65490, 65495>>, <<65498, 65500>>,
      <<65536, 65547>>, <<65549, 65574>>, <<65576, 65594>>, <<65596, 65597>>, <<65599, 65613>>, <<65616, 65629>>,
      <<65664, 65786>>, <<65799, 65843>>, <<65856, 65912>>, <<65930, 65931>>, <<66176, 66204>>, <<66208, 66256>>,
      <<66273, 66299>>, <<66304, 66339>>, <<66349, 66378>>, <<66384, 66421>>, <<66432, 66461>>, <<66464, 66499>>,
      <<66504, 66511>>, <<66513, 66517>>, <<66560, 66717>>, <<66720, 66729>>, <<66736, 66771>>, <<66776, 66811>>,
      <<66816, 66855>>, <<66864, 66915>>, <<66928, 66938>>, <<66940, 66954>>, <<66956, 66962>>, <<66964, 66965>>,
      <<66967, 66977>>, <<66979, 66993>>, <<66995, 67001>>, <<67003, 67004>>, <<67072, 67382>>, <<67392, 67413>>,
      <<67424, 67431>>, <<67456, 67461>>, <<67463, 67504>>, <<67506, 67514>>, <<67584, 67589>>, <<67592, 67592>>,
      <<67594, 67637>>, <<67639, 67640>>, <<67644, 67644>>, <<67647, 67669>>, <<67672, 67702>>, <<67705, 67742>>,
      <<67751, 67759>>, <<67808, 67826>>, <<67828, 67829>>, <<67835, 67867>>, <<67872, 67897>>, <<67968, 68023>>,
      <<68028, 68047>>, <<68050, 68096>>, <<68112, 68115>>, <<68117, 68119>>, <<68121, 68149>>, <<68160, 68168>>,
      <<68192, 68222>>, <<68224, 68255>>, <<68288, 68295>>, <<68297, 68324>>, <<68331, 68335>>, <<68352, 68405>>,
      <<68416, 68437>>, <<68440, 68466>>, <<68472, 68497>>, <<68521, 68527>>, <<68608, 68680>>, <<68736, 68786>>,
      <<68800, 68850>>, <<68858, 68899>>, <<68912, 68921>>, <<69216, 69246>>, <<69248, 69289>>, <<69296, 69297>>,
      <<69376, 69415>>, <<69424, 69445>>, <<69457, 69460>>, <<69488, 69505>>, <<69552, 69579>>, <<69600, 69622>>,
      <<69635, 69687>>, <<69714, 69743>>, <<69745, 69746>>, <<69749, 69749>>, <<69763, 69807>>, <<69840, 69864>>,
      <<69872, 69881>>, <<69891, 69926>>, <<69942, 69951>>, <<69956, 69956>>, <<69959, 69959>>, <<69968, 70002>>,
      <<70006, 70006>>, <<70019, 70066>>, <<70081, 70084>>, <<70096, 70106>>, <<70108, 70108>>, <<70113, 70132>>,
      <<70144, 70161>>, <<70163, 70187>>, <<70272, 70278>>, <<70280, 70280>>, <<70282, 70285>>, <<70287, 70301>>,
      <<70303, 70312>>, <<70320, 70366>>, <<70384, 70393>>, <<70405, 70412>>, <<70415, 70416>>, <<70419, 70440>>,
      <<70442, 70448>>, <<70450, 70451>>, <<70453, 70457>>, <<70461, 70461>>, <<70480, 70480>>, <<70493, 70497>>,
      <<70656, 70708>>, <<70727, 70730>>, <<70736, 70745>>, <<70751, 70753>>, <<70784, 70831>>, <<70852, 70853>>,
      <<70855, 70855>>, <<70864, 70873>>, <<71040, 71086>>, <<71128, 71131>>, <<71168, 71215>>, <<71236, 71236>>,
      <<71248, 71257>>, <<71296, 71338>>, <<71352, 71352>>, <<71360, 71369>>, <<71424, 71450>>, <<71472, 71483>>,
      <<71488, 71494>>, <<71680, 71723>>, <<71840, 71922>>, <<71935, 71942>>, <<71945, 71945>>, <<71948, 71955>>,
      <<71957, 71958>>, <<71960, 71983>>, <<71999, 71999>>, <<72001, 72001>>, <<72016, 72025>>, <<72096, 72103>>,
      <<72106, 72144>>, <<72161, 72161>>, <<72163, 72163>>, <<72192, 72192>>, <<72203, 72242>>, <<72250, 72250>>,
      <<72272, 72272>>, <<72284, 72329>>, <<72349, 72349>>, <<72368, 72440>>, <<72704, 72712>>, <<72714, 72750>>,
      <<72768, 72768>>, <<72784, 72812>>, <<72818, 72847>>, <<72960, 72966>>, <<72968, 72969>>, <<72971, 73008>>,
      <<73030, 73030>>, <<73040, 73049>>, <<73056, 73061>>, <<73063, 73064>>, <<73066, 73097>>, <<73112, 73112>>,
      <<73120, 73129>>, <<73440, 73458>>, <<73648, 73648>>, <<73664, 73684>>, <<73728, 74649>>, <<74752, 74862>>,
      <<74880, 75075>>, <<77712, 77808>>, <<77824, 78894>>, <<82944, 83526>>, <<92160, 92728>>, <<92736, 92766>>,
      <<92768, 92777>>, <<92784, 92862>>, <<92864, 92873>>, <<92880, 92909>>, <<92928, 92975>>, <<92992, 92995>>,
      <<93008, 93017>>, <<93019, 93025>>, <<93027, 93047>>, <<93053, 93071>>, <<93760, 93846>>, <<93952, 94026>>,
      <<94032, 94032>>, <<94099, 94111>>, <<94176, 94177>>, <<94179, 94179>>, <<94208, 100343>>, <<100352, 101589>>,
      <<101632, 101640>>, <<110576, 110579>>, <<110581, 110587>>, <<110589, 110590>>, <<110592, 110882>>, <<110928, 110930>>,
      <<110948, 110951>>, <<110960, 111355>>, <<113664, 113770>>, <<113776, 113788>>, <<113792, 113800>>, <<113808, 113817>>,
      <<119520, 119539>>, <<119648, 119672>>, <<119808, 119892>>, <<119894, 119964>>, <<119966, 119967>>, <<119970, 119970>>,
      <<119973, 119974>>, <<119977, 119980>>, <<119982, 119993>>, <<119995, 119995>>, <<119997, 120003>>, <<120005, 120069>>,
      <<120071, 120074>>, <<120077, 120084>>, <<120086, 120092>>, <<120094, 120121>>, <<120123, 120126>>, <<120128, 120132>>,
      <<120134, 120134>>, <<120138, 120144>>, <<120146, 120485>>, <<120488, 120512>>, <<120514, 120538>>, <<120540, 120570>>,
      <<120572, 120596>>, <<120598, 120628>>, <<120630, 120654>>, <<120656, 120686>>, <<120688, 120712>>, <<120714, 120744>>,
      <<120746, 120770>>, <<120772, 120779>>, <<120782, 120831>>, <<122624, 122654>>, <<123136, 123180>>, <<123191, 123197>>,
      <<123200, 123209>>, <<123214, 123214>>, <<123536, 123565>>, <<123584, 123627>>, <<123632, 123641>>, <<124896, 124902>>,
      <<124904, 124907>>, <<124909, 124910>>, <<124912, 124926>>, <<124928, 125124>>, <<125127, 125135>>, <<125184, 125251>>,
      <<125259, 125259>>, <<125264, 125273>>, <<126065, 126123>>, <<126125, 126127>>, <<126129, 126132>>, <<126209, 126253>>,
      <<126255, 126269>>, <<126464, 126467>>, <<126469, 126495>>, <<126497, 126498>>, <<126500, 126500>>, <<126503, 126503>>,
      <<126505, 126514>>, <<126516, 126519>>, <<126521, 126521>>, <<126523, 126523>>, <<126530, 126530>>, <<126535, 126535>>,
      <<126537, 126537>>, <<126539, 126539>>, <<126541, 126543>>, <<126545, 126546>>, <<126548, 126548>>, <<126551, 126551>>,
      <<126553, 126553>>, <<126555, 126555>>, <<126557, 126557>>, <<126559, 126559>>, <<126561, 126562>>, <<126564, 126564>>,
      <<126567, 126570>>, <<126572, 126578>>, <<126580, 126583>>, <<126585, 126588>>, <<126590, 126590>>, <<126592, 126601>>,
      <<126603, 126619>>, <<126625, 126627>>, <<126629, 126633>>, <<126635, 126651>>, <<127232, 127244>>, <<130032, 130041>>,
      <<131072, 173791>>, <<173824, 177976>>, <<177984, 178205>>, <<178208, 183969>>, <<183984, 191456>>, <<194560, 195101>>,
      <<196608, 201546>> >>

\* the runs of code points that ch.lower() changes to one other code point:
\* <<first, last, step, offset>> moves first, first + step, ..., last by offset
LowerRuns ==
    << <<65, 90, 1, 32>>, <<192, 214, 1, 32>>, <<216, 222, 1, 32>>, <<256, 302, 2, 1>>,
      <<306, 310, 2, 1>>, <<313, 327, 2, 1>>, <<330, 374, 2, 1>>, <<376, 376, 1, -121>>,
      <<377, 381, 2, 1>>, <<385, 385, 1, 210>>, <<386, 388, 2, 1>>, <<390, 390, 1, 206>>,
      <<391, 391, 1, 1>>, <<393, 394, 1, 205>>, <<395, 395, 1, 1>>, <<398, 398, 1, 79>>,
      <<399, 399, 1, 202>>, <<400, 400, 1, 203>>, <<401, 401, 1, 1>>, <<403, 403, 1, 205>>,
      <<404, 404, 1, 207>>, <<406, 406, 1, 211>>, <<407, 407, 1, 209>>, <<408, 408, 1, 1>>,
      <<412, 412, 1, 211>>, <<413, 413, 1, 213>>, <<415, 415, 1, 214>>, <<416, 420, 2, 1>>,
      <<422, 422, 1, 218>>, <<423, 423, 1, 1>>, <<425, 425, 1, 218>>, <<428, 428, 1, 1>>,
      <<430, 430, 1, 218>>, <<431, 431, 1, 1>>, <<433, 434, 1, 217>>, <<435, 437, 2, 1>>,
      <<439, 439, 1, 219>>, <<440, 440, 1, 1>>, <<444, 444, 1, 1>>, <<452, 452, 1, 2>>,
      <<453, 453, 1, 1>>, <<455, 455, 1, 2>>, <<456, 456, 1, 1>>, <<458, 458, 1, 2>>,
      <<459, 475, 2, 1>>, <<478, 494, 2, 1>>, <<497, 497, 1, 2>>, <<498, 500, 2, 1>>,
      <<502, 502, 1, -97>>, <<503, 503, 1, -56>>, <<504, 542, 2, 1>>, <<544, 544, 1, -130>>,
      <<546, 562, 2, 1>>, <<570, 570, 1, 10795>>, <<571, 571, 1, 1>>, <<573, 573, 1, -163>>,
      <<574, 574, 1, 10792>>, <<577, 577, 1, 1>>, <<579, 579, 1, -195>>, <<580, 580, 1, 69>>,
      <<581, 581, 1, 71>>, <<582, 590, 2, 1>>, <<880, 882, 2, 1>>, <<886, 886, 1, 1>>,
      <<895, 895, 1, 116>>, <<902, 902, 1, 38>>, <<904, 906, 1, 37>>, <<908, 908, 1, 64>>,
      <<910, 911, 1, 63>>, <<913, 929, 1, 32>>, <<931, 939, 1, 32>>, <<975, 975, 1, 8>>,
      <<984, 1006, 2, 1>>, <<1012, 1012, 1, -60>>, <<1015, 1015, 1, 1>>, <<1017, 1017, 1, -7>>,
      <<1018, 1018, 1, 1>>, <<1021, 1023, 1, -130>>, <<1024, 1039, 1, 80>>, <<1040, 1071, 1, 32>>,
      <<1120, 1152, 2, 1>>, <<1162, 1214, 2, 1>>, <<1216, 1216, 1, 15>>, <<1217, 1229, 2, 1>>,
      <<1232, 1326, 2, 1>>, <<1329, 1366, 1, 48>>, <<4256, 4293, 1, 7264>>, <<4295, 4295, 1, 7264>>,
      <<4301, 4301, 1, 7264>>, <<5024, 5103, 1, 38864>>, <<5104, 5109, 1, 8>>, <<7312, 7354, 1, -3008>>,
      <<7357, 7359, 1, -3008>>, <<7680, 7828, 2, 1>>, <<7838, 7838, 1, -7615>>, <<7840, 7934, 2, 1>>,
      <<7944, 7951, 1, -8>>, <<7960, 7965, 1, -8>>, <<7976, 7983, 1, -8>>, <<7992, 7999, 1, -8>>,
      <<8008, 8013, 1, -8>>, <<8025, 8031, 2, -8>>, <<8040, 8047, 1, -8>>, <<8072, 8079, 1, -8>>,
      <<8088, 8095, 1, -8>>, <<8104, 8111, 1, -8>>, <<8120, 8121, 1, -8>>, <<8122, 8123, 1, -74>>,
      <<8124, 8124, 1, -9>>, <<8136, 8139, 1, -86>>, <<8140, 8140, 1, -9>>, <<8152, 8153, 1, -8>>,
      <<8154, 8155, 1, -100>>, <<8168, 8169, 1, -8>>, <<8170, 8171, 1, -112>>, <<8172, 8172, 1, -7>>,
      <<8184, 8185, 1, -128>>, <<8186, 8187, 1, -126>>, <<8188, 8188, 1, -9>>, <<8486, 8486, 1, -7517>>,
      <<8490, 8490, 1, -8383>>, <<8491, 8491, 1, -8262>>, <<8498, 8498, 1, 28>>, <<8544, 8559, 1, 16>>,
      <<8579, 8579, 1, 1>>, <<9398, 9423, 1, 26>>, <<11264, 11311, 1, 48>>, <<11360, 11360, 1, 1>>,
      <<11362, 11362, 1, -10743>>, <<11363, 11363, 1, -3814>>, <<11364, 11364, 1, -10727>>, <<11367, 11371, 2, 1>>,
      <<11373, 11373, 1, -10780>>, <<11374, 11374, 1, -10749>>, <<11375, 11375, 1, -10783>>, <<11376, 11376, 1, -10782>>,
      <<11378, 11378, 1, 1>>, <<11381, 11381, 1, 1>>, <<11390, 11391, 1, -10815>>, <<11392, 11490, 2, 1>>,
      <<11499, 11501, 2, 1>>, <<11506, 11506, 1, 1>>, <<42560, 42604, 2, 1>>, <<42624, 42650, 2, 1>>,
      <<42786, 42798, 2, 1>>, <<42802, 42862, 2, 1>>, <<42873, 42875, 2, 1>>, <<42877, 42877, 1, -35332>>,
      <<42878, 42886, 2, 1>>, <<42891, 42891, 1, 1>>, <<42893, 42893, 1, -42280>>, <<42896, 42898, 2, 1>>,
      <<42902, 42920, 2, 1>>, <<42922, 42922, 1, -42308>>, <<42923, 42923, 1, -42319>>, <<42924, 42924, 1, -42315>>,
      <<42925, 42925, 1, -42305>>, <<42926, 42926, 1, -42308>>, <<42928, 42928, 1, -42258>>, <<42929, 42929, 1, -42282>>,
      <<42930, 42930, 1, -42261>>, <<42931, 42931, 1, 928>>, <<42932, 42946, 2, 1>>, <<42948, 42948, 1, -48>>,
      <<42949, 42949, 1, -42307>>, <<42950, 42950, 1, -35384>>, <<42951, 42953, 2, 1>>, <<42960, 42960, 1, 1>>,
      <<42966, 42968, 2, 1>>, <<42997, 42997, 1, 1>>, <<65313, 65338, 1, 32>>, <<66560, 66599, 1, 40>>,
      <<66736, 66771, 1, 40>>, <<66928, 66938, 1, 39>>, <<66940, 66954, 1, 39>>, <<66956, 66962, 1, 39>>,
      <<66964, 66965, 1, 39>>, <<68736, 68786, 1, 64>>, <<71840, 71871, 1, 32>>, <<93760, 93791, 1, 32>>,
      <<125184, 125217, 1, 34>> >>

\* ch.isdecimal()
IsDecimal(ch) == \E k \in DOMAIN DecimalZeros : DecimalZeros[k] <= ch /\ ch <= DecimalZeros[k] + 9

\* the digit a decimal character writes
DigitVal(ch) ==
    ch - DecimalZeros[CHOOSE k \in DOMAIN DecimalZeros :
                          DecimalZeros[k] <= ch /\ ch <= DecimalZeros[k] + 9]

\* ch.isalnum()
IsAlnum(ch) ==
    \E k \in DOMAIN AlnumRanges : AlnumRanges[k][1] <= ch /\ ch <= AlnumRanges[k][2]

\* ch.lower() for a character whose lower case is one character
LowerCh(ch) ==
    LET hit == {k \in DOMAIN LowerRuns :
                   /\ LowerRuns[k][1] <= ch /\ ch <= LowerRuns[k][2]
                   /\ (ch - LowerRuns[k][1]) % LowerRuns[k][3] = 0}
    IN  IF hit = {} THEN ch ELSE ch + LowerRuns[CHOOSE k \in hit : TRUE][4]

RECURSIVE Lower(_)
\* str.lower(): U+0130 becomes two characters; a capital sigma (U+03A3) becomes
\* one of two characters by its place in the word, which is not modelled, so a
\* string that holds one has no lower case here
Lower(str) ==
    IF str = << >> THEN << >>
    ELSE CASE str[1] = 304 -> <<105, 775>> \o Lower(Tail(str))
           [] str[1] \notin {304, 931} -> <<LowerCh(str[1])>> \o Lower(Tail(str))

RECURSIVE LStrip(_, _)
LStrip(str, drop) ==
    IF str # << >> /\ str[1] \in drop THEN LStrip(Tail(str), drop) ELSE str

RECURSIVE RStrip(_, _)
RStrip(str, drop) ==
    IF str # << >> /\ str[Len(str)] \in drop
    THEN RStrip(SubSeq(str, 1, Len(str) - 1), drop) ELSE str

\* str.strip() and str.strip(chars)
Strip(str, drop) == RStrip(LStrip(str, drop), drop)

\* pat in str
Contains(str, pat) ==
    \E k \in 1 .. (Len(str) - Len(pat) + 1) : SubSeq(str, k, k + Len(pat) - 1) = pat

RECURSIVE DigitsVal(_)
\* the number a sequence of digits (0 .. 9) writes
DigitsVal(ds) ==
    IF ds = << >> THEN 0
    ELSE 10 * DigitsVal(SubSeq(ds, 1, Len(ds) - 1)) + ds[Len(ds)]

\* what float() reads of a string: ASCII as it is, any other white space as a
\* space, any other decimal digit as its ASCII digit, any other character as "?"
FloatAscii(str) ==
    [k \in DOMAIN str |->
        IF str[k] < 127 THEN str[k]
        ELSE IF str[k] \in Whitespace THEN 32
        ELSE IF IsDecimal(str[k]) THEN 48 + DigitVal(str[k])
        ELSE 63]

\* the white space float() strips from both ends
FloatSpace == (9 .. 13) \cup {32}

IsAsciiDigit(ch) == 48 <= ch /\ ch <= 57

\* an underscore is accepted between two digits only
UnderscoresOk(t) ==
    \A k \in DOMAIN t :
        t[k] = 95 => /\ k > 1 /\ IsAsciiDigit(t[k - 1])
                     /\ k < Len(t) /\ IsAsciiDigit(t[k + 1])

\* the letters of a word in lower case, as float() compares "inf" and "nan"
AsciiLower(str) == [k \in DOMAIN str |-> IF 65 <= str[k] /\ str[k] <= 90 THEN str[k] + 32 ELSE str[k]]

\* the digits (0 .. 9) of a sequence of ASCII digits
DigitsOf(str) == [k \in DOMAIN str |-> str[k] - 48]

\* n zeros
Zeros(n) == [k \in 1 .. n |-> 0]

\* how the decimal fraction 0.ds compares with one half: -1, 0 or 1
CmpHalf(ds) ==
    IF ds = << >> \/ ds[1] < 5 THEN -1
    ELSE IF ds[1] > 5 \/ \E k \in 2 .. Len(ds) : ds[k] # 0 THEN 1
    ELSE 0

(***************************************************************************)
(* The floats of the table.  float(s), round(x) and "%g" % x are exact to  *)
(* the last bit and the last digit, so they are computed on whole numbers  *)
(* of any size: a natural number is the sequence of its decimal digits,    *)
(* highest first, and << >> is 0.  A float is an F64 record; the values    *)
(* that are no numbers have an exponent above that of every number.        *)
(***************************************************************************)
\* float("inf"), float("-inf"), float("nan"), and Python's None
F64PosInf == F64(1, 1024, 0, 0)

F64NegInf == F64(-1, 1024, 0, 0)

F64NaN == F64(0, 1024, 0, 1)

F64None == F64(0, 1025, 0, 0)

\* math.isfinite(v) for a float v
F64Finite(v) == v.e < 1024

\* float(u) for a number u of the model's fixed point, or one of its codes
FloatOf(u) ==
    IF u = None THEN F64None
    ELSE IF u = NaN THEN F64NaN
    ELSE IF u = PosInf THEN F64PosInf
    ELSE IF u = NegInf THEN F64NegInf
    ELSE F64Units(u)

\* The float v as the scanner and the writer of the model hold it: in whole
\* units of 1 / FScale, or as a code.  A float that is no whole number of
\* units below 1023 has no value there
Fixed(v) ==
    CASE v = F64None -> None
      [] v = F64NaN -> NaN
      [] v = F64PosInf -> PosInf
      [] v = F64NegInf -> NegInf
      [] /\ v.e < 1024
         /\ v.s = 0 \/ (v.e + 53 <= 10 /\ v.h >= 2^24)
         /\ F64Units(F64ToUnits(v)) = v
         /\ Abs(F64ToUnits(v)) < Fx(1023) -> F64ToUnits(v)

RECURSIVE NatDigits(_)
\* the digits of the integer n >= 0
NatDigits(n) == IF n = 0 THEN << >> ELSE NatDigits(n \div 10) \o <<n % 10>>

RECURSIVE DecTimes(_, _, _, _, _)
\* the digits lo .. hi of ds times c, plus the carry cin < c, c <= 2^14:
\* <<carry out, digits>>
DecTimes(ds, lo, hi, c, cin) ==
    IF lo > hi THEN <<cin, << >>>>
    ELSE IF lo = hi THEN <<(ds[lo] * c + cin) \div 10, <<(ds[lo] * c + cin) % 10>>>>
    ELSE Only({Only({<<left[1], left[2] \o right[2]>> :
                     left \in {DecTimes(ds, lo, (lo + hi) \div 2, c, right[1])}}) :
               right \in {DecTimes(ds, (lo + hi) \div 2 + 1, hi, c, cin)}})

\* ds * c + a for 0 <= a < c <= 2^14
DecMul(ds, c, a) ==
    Only({NatDigits(r[1]) \o r[2] : r \in {DecTimes(ds, 1, Len(ds), c, a)}})

RECURSIVE DecPow(_, _, _, _)
\* ds * b^n, b^m at a time
DecPow(ds, b, m, n) ==
    IF n <= m THEN DecMul(ds, b^n, 0)
    ELSE Only({DecPow(part, b, m, n - (IF n < 2 * m THEN m ELSE m * ((n \div m) \div 2))) :
               part \in {DecPow(ds, b, m, IF n < 2 * m THEN m ELSE m * ((n \div m) \div 2))}})

\* ds * 10^q * 2^k as <<digits, power of ten>>: a division by 2 is a
\* multiplication by 5 and a division by 10
DecShift(ds, q, k) ==
    IF k >= 0 THEN <<DecPow(ds, 2, 14, k), q>> ELSE <<DecPow(ds, 5, 6, -k), q + k>>

\* ds * 10^q split at the decimal point: the digits of the whole part, and the
\* digits after the point
DecSplit(ds, q) ==
    IF q >= 0 THEN [ip |-> IF ds = << >> THEN << >> ELSE ds \o Zeros(q), fp |-> << >>]
    ELSE IF -q >= Len(ds) THEN [ip |-> << >>, fp |-> Zeros(-q - Len(ds)) \o ds]
    ELSE [ip |-> SubSeq(ds, 1, Len(ds) + q), fp |-> SubSeq(ds, Len(ds) + q + 1, Len(ds))]

\* ds + 1
DecInc(ds) ==
    IF \A k \in DOMAIN ds : ds[k] = 9 THEN <<1>> \o Zeros(Len(ds))
    ELSE Only({[k \in DOMAIN ds |-> IF k < p THEN ds[k] ELSE IF k = p THEN ds[k] + 1 ELSE 0] :
               p \in {CHOOSE k \in DOMAIN ds :
                         ds[k] # 9 /\ \A m \in (k + 1) .. Len(ds) : ds[m] = 9}})

RECURSIVE DecBinary(_, _)
\* the number below 2^54 that the digits ds write after the number acc, in
\* three parts of 18 bits, highest first
DecBinary(ds, acc) ==
    IF ds = << >> THEN acc
    ELSE Only({DecBinary(Tail(ds), next) :
               next \in {<<acc[1] * 10 + (acc[2] * 10 + (acc[3] * 10 + ds[1]) \div 2^18) \div 2^18,
                           (acc[2] * 10 + (acc[3] * 10 + ds[1]) \div 2^18) % 2^18,
                           (acc[3] * 10 + ds[1]) % 2^18>>}})

\* the number of bits of a number in three parts of 18 bits
Bits54(t) ==
    IF t[1] > 0 THEN 37 + BExp(t[1], 0)
    ELSE IF t[2] > 0 THEN 19 + BExp(t[2], 0)
    ELSE IF t[3] > 0 THEN 1 + BExp(t[3], 0)
    ELSE 0

\* a whole number not above log2(10^(point - 1)), and less than 1.1 below it
Log2Floor(point) ==
    IF point >= 1 THEN ((point - 1) * 3321928) \div 1000000
    ELSE -(((1 - point) * 3321929 + 999999) \div 1000000)

\* The float nearest to 0.sig * 10^point, ties to the even significand, for
\* digits sig that start with a non-zero one: inf from 2^1024 - 2^970 on, and
\* below 2^-1022 the floats are 2^-1074 apart.  The number is doubled k times
\* (or halved -k times) until its whole part has the 53 bits of the
\* significand and one more, or until one unit is 2^-1075
Magnitude(sig, point) ==
    IF point >= 310 THEN F64PosInf
    ELSE IF point <= -324 THEN F64Zero
    ELSE Only({Only({Only({Only({Only({
             LET x == F64Inc(F64(1, 1 - (k + c), t[1] * 2^7 + t[2] \div 2^11,
                                 (t[2] % 2^11) * 2^17 + t[3] \div 2),
                             /\ t[3] % 2 = 1
                             /\ \/ (t[3] \div 2) % 2 = 1
                                \/ \E n \in DOMAIN s.fp : s.fp[n] # 0)
             IN  IF x.h = 0 /\ x.l = 0 THEN F64Zero
                 ELSE IF x.e > 971 THEN F64PosInf
                 ELSE x :
             t \in {DecBinary(s.ip, <<0, 0, 0>>)}}) :
             s \in {DecSplit(DecMul(d[1], 2^c, 0), d[2])}}) :
             c \in {Min2(54 - Bits54(DecBinary(DecSplit(d[1], d[2]).ip, <<0, 0, 0>>)),
                         1075 - k)}}) :
             d \in {DecShift(sig, point - Len(sig), k)}}) :
         k \in {Min2(49 - Log2Floor(point), 1075)}})

\* the float that float() reads of the digits all, of which the first nint
\* stand before the point, and of the digits exall of the exponent
FloatOfDigits(neg, all, nint, exall, exneg) ==
    LET sig == LStrip(all, {0})
        exsig == LStrip(exall, {0})
        exval == IF exneg THEN -DigitsVal(exsig) ELSE DigitsVal(exsig)
        point == nint - (Len(all) - Len(sig)) + exval
    IN  Only({IF mag = F64PosInf THEN IF neg THEN F64NegInf ELSE F64PosInf
              ELSE IF neg /\ mag # F64Zero THEN F64Neg(mag) ELSE mag :
              mag \in {IF sig = << >> THEN F64Zero
                       ELSE IF Len(exsig) > 4 THEN IF exneg THEN F64Zero ELSE F64PosInf
                       ELSE Magnitude(sig, point)}})

\* float() of a text without white space around it, underscores and sign
FloatOfBody(neg, body) ==
    LET word == AsciiLower(body)
        es == {k \in DOMAIN body : body[k] \in {69, 101}}
        e == IF es = {} THEN Len(body) + 1 ELSE CHOOSE k \in es : \A m \in es : k <= m
        mant == SubSeq(body, 1, e - 1)
        ex == SubSeq(body, e + 1, Len(body))
        exsigned == ex # << >> /\ ex[1] \in {43, 45}
        exneg == ex # << >> /\ ex[1] = 45
        exds == IF exsigned THEN Tail(ex) ELSE ex
        dots == {k \in DOMAIN mant : mant[k] = 46}
        dot == IF dots = {} THEN Len(mant) + 1 ELSE CHOOSE k \in dots : TRUE
        ip == SubSeq(mant, 1, dot - 1)
        fp == SubSeq(mant, dot + 1, Len(mant))
    IN  IF word = Text(<<"n", "a", "n">>) THEN F64NaN
        ELSE IF word \in {Text(<<"i", "n", "f">>),
                          Text(<<"i", "n", "f", "i", "n", "i", "t", "y">>)}
        THEN IF neg THEN F64NegInf ELSE F64PosInf
        ELSE IF /\ Cardinality(dots) <= 1
                /\ Len(ip) + Len(fp) >= 1
                /\ \A k \in DOMAIN ip : IsAsciiDigit(ip[k])
                /\ \A k \in DOMAIN fp : IsAsciiDigit(fp[k])
                /\ es # {} => (exds # << >> /\ \A k \in DOMAIN exds : IsAsciiDigit(exds[k]))
        THEN FloatOfDigits(neg, DigitsOf(ip \o fp), Len(ip), DigitsOf(exds), exneg)
        ELSE F64None

\* float(str): F64None where it raises ValueError
ParseFloat(str) ==
    LET t == Strip(FloatAscii(str), FloatSpace)
        u == SelectSeq(t, LAMBDA ch : ch # 95)
        signed == u # << >> /\ u[1] \in {43, 45}
        neg == u # << >> /\ u[1] = 45
    IN  IF ~UnderscoresOk(t) THEN F64None
        ELSE FloatOfBody(neg, IF signed THEN Tail(u) ELSE u)

\* a table cell: [t |-> "none"], [t |-> "num", v |-> float] or
\* [t |-> "str", s |-> string], always with the three fields t, v, s
NoneCell == [t |-> "none", v |-> F64Zero, s |-> << >>]

NumCell(v) == [t |-> "num", v |-> v, s |-> << >>]

StrCell(str) == [t |-> "str", v |-> F64Zero, s |-> str]

\* _to_float(v), lines 165-174
ToFloat(cell) ==
    IF cell.t = "none" THEN F64None
    ELSE IF cell.t = "num" THEN cell.v
    ELSE LET s == Strip(cell.s, Whitespace)
         IN  ParseFloat([k \in DOMAIN s |-> IF s[k] = 44 THEN 46 ELSE s[k]])

\* one row as _read_csv and _read_excel_ogr append it; the name is the cell as
\* the reader returns it: a string or None, and in a workbook a number as well
\* (line 242)
ReadRow(raw) ==
    [name |-> raw.name,
     azimuth |-> ToFloat(raw.azimuth),
     altitude |-> ToFloat(raw.altitude),
     constant |-> ToFloat(raw.constant)]

\* _to_float applied to a value that _read_table already converted (lines 695-697)
ToFloatAgain(v) == IF v = F64None THEN F64None ELSE v

\* _slug(name), lines 176-181
Slug(name) ==
    LET t == Strip(name, Whitespace)
        out == [k \in DOMAIN t |->
                   IF t[k] \in {46, 45, 95} \/ IsAlnum(t[k]) THEN t[k] ELSE 95]
        str == Strip(out, {32, 46})
    IN  IF str # << >> THEN str ELSE Text(<<"s", "h", "a", "d", "o", "w">>)

\* str(n) for an integer n > 0, and "" for 0
NatText(n) == [k \in DOMAIN NatDigits(n) |-> 48 + NatDigits(n)[k]]

\* str(n) for an integer n
IntText(n) ==
    IF n = 0 THEN <<48>> ELSE IF n < 0 THEN <<45>> \o NatText(-n) ELSE NatText(n)

\* digits as ASCII text
DigitText(ds) == [k \in DOMAIN ds |-> 48 + ds[k]]

\* abs(x) for a finite float x, written out: the digits of its whole part and
\* all the digits after the point.  The significand is read off in parts of
\* 14 bits, without the parts that are 0 at its low end
F64Decimal(x) ==
    LET d == F64Digits(x)
        t == IF d[1] # 0 THEN 0 ELSE IF d[2] # 0 THEN 1 ELSE IF d[3] # 0 THEN 2 ELSE 3
    IN  IF x.h = 0 /\ x.l = 0 THEN [ip |-> << >>, fp |-> << >>]
        ELSE Only({Only({DecSplit(s[1], s[2]) : s \in {DecShift(m, 0, x.e + 14 * t)}}) :
                   m \in {IF t = 3 THEN NatDigits(d[4])
                          ELSE IF t = 2 THEN DecMul(NatDigits(d[4]), 2^14, d[3])
                          ELSE IF t = 1
                          THEN DecMul(DecMul(NatDigits(d[4]), 2^14, d[3]), 2^14, d[2])
                          ELSE DecMul(DecMul(DecMul(NatDigits(d[4]), 2^14, d[3]), 2^14, d[2]),
                                      2^14, d[1])}})

\* str(int(round(v))) for a finite float v: to the nearest integer, ties to
\* the even one
IntRoundText(v) ==
    Only({Only({IF n = << >> THEN <<48>>
                ELSE (IF v.s < 0 THEN <<45>> ELSE << >>) \o DigitText(n) :
                n \in {IF CmpHalf(w.fp) > 0
                          \/ (CmpHalf(w.fp) = 0 /\ w.ip # << >> /\ w.ip[Len(w.ip)] % 2 = 1)
                       THEN DecInc(w.ip) ELSE w.ip}}) :
          w \in {F64Decimal(v)}})

\* "%g" % v for a finite v other than 0: six significant digits, the last
\* rounded to the nearest with ties to the even digit, trailing zeros removed,
\* and the exponent form below 1e-4 and from 1e6 on
FormatG(v) ==
    LET sign == IF v.s < 0 THEN <<45>> ELSE << >>
        frac(fs) == IF RStrip(fs, {0}) = << >> THEN << >>
                    ELSE <<46>> \o DigitText(RStrip(fs, {0}))
    IN  Only({Only({Only({Only({
            LET n == IF up = 1000000 THEN 100000 ELSE up
                x == IF up = 1000000 THEN Len(w.ip) - p + 1 ELSE Len(w.ip) - p
                ds == <<n \div 100000, (n \div 10000) % 10, (n \div 1000) % 10,
                        (n \div 100) % 10, (n \div 10) % 10, n % 10>>
            IN  IF x < -4 \/ x >= 6
                THEN sign \o <<48 + ds[1]>> \o frac(Tail(ds))
                          \o <<101, IF x < 0 THEN 45 ELSE 43>>
                          \o (IF Abs(x) < 10 THEN <<48>> ELSE << >>) \o IntText(Abs(x))
                ELSE IF x < 0
                THEN sign \o <<48>> \o frac(Zeros(-x - 1) \o ds)
                ELSE sign \o DigitText(SubSeq(ds, 1, x + 1)) \o frac(SubSeq(ds, x + 2, 6)) :
            up \in {LET n6 == DigitsVal(SubSeq(all, p, p + 5))
                        half == CmpHalf(SubSeq(all, p + 6, Len(all)))
                    IN  IF half > 0 \/ (half = 0 /\ n6 % 2 = 1) THEN n6 + 1 ELSE n6}}) :
            p \in {CHOOSE k \in DOMAIN all : all[k] # 0 /\ \A m \in 1 .. k - 1 : all[m] = 0}}) :
            all \in {w.ip \o w.fp \o Zeros(6)}}) :
            w \in {F64Decimal(v)}})

\* ctag of line 703: str(int(cval)) or "%g" % cval
CTag(cval) ==
    IF cval = F64NaN THEN Text(<<"n", "a", "n">>)
    ELSE IF cval = F64PosInf THEN Text(<<"i", "n", "f">>)
    ELSE IF cval = F64NegInf THEN Text(<<"-", "i", "n", "f">>)
    ELSE Only({IF \A k \in DOMAIN w.fp : w.fp[k] = 0
               THEN IF w.ip = << >> THEN <<48>>
                    ELSE (IF cval.s < 0 THEN <<45>> ELSE << >>) \o DigitText(w.ip)
               ELSE FormatG(cval) :
               w \in {F64Decimal(cval)}})

\* int(round(az)) raises ValueError for nan and OverflowError for inf
IntRoundRaises(v) == ~F64Finite(v)

\* fn of line 704, the name of the file in the output folder
OutPath(prefix, name, suffix, az, alt, cval) ==
    prefix \o Slug(name) \o suffix
        \o Text(<<"_", "s", "m", "_", "a", "z">>) \o IntRoundText(az)
        \o Text(<<"_", "a", "l", "t">>) \o IntRoundText(alt)
        \o Text(<<"_", "c">>) \o CTag(cval) \o Text(<<".", "t", "i", "f">>)

(***************************************************************************)
(* SAGA backend, lines 377-421 and 718-723                                 *)
(***************************************************************************)
\* SagaMask without the final negation: the nodata mask itself
SagaMaskNodata(arr, ndv) ==
    [c \in DOMAIN arr |->
        ~IsFinite(ToFloat32(arr[c])) \/ (ndv # None /\ ToFloat32(arr[c]) = ToFloat32(ndv))]

\* the boolean mask _saga_shadow_mask returns for the raster arr with the
\* band's nodata value ndv (None when the band has none), lines 415-421: arr is
\* cast to Float32 and compared with ndv in Float32
SagaMask(arr, ndv) ==
    [c \in DOMAIN arr |->
        ~(~IsFinite(ToFloat32(arr[c])) \/ (ndv # None /\ ToFloat32(arr[c]) = ToFloat32(ndv)))]

\* error texts a backend call can end with: four that processing.run may raise,
\* and those of lines 401, 405 and 413
MsgNotFound == Text(<<"A", "l", "g", "o", "r", "i", "t", "h", "m", " ", "X", " ", "n", "o", "t", " ", "f", "o", "u", "n", "d">>)

MsgAlgorithm == Text(<<"N", "o", " ", "a", "l", "g", "o", "r", "i", "t", "h", "m", " ", "f", "o", "u", "n", "d", ",", " ", "n", "o", "t", " ", "l", "o", "a", "d", "e", "d">>)

MsgProvider == Text(<<"S", "A", "G", "A", "N", "G", " ", "o", "f", "f">>)

MsgNoShade ==
    Text(<<"S", "A", "G", "A", " ", "o", "u", "t", "p", "u", "t", " ", "'", "S", "H", "A",
      "D", "E", "'", " ", "n", "o", "t", " ", "r", "e", "t", "u", "r", "n", "e", "d",
      ".">>)

MsgUnopened ==
    Text(<<"S", "A", "G", "A", " ", "s", "h", "a", "d", "e", " ", "r", "a", "s", "t", "e",
      "r", " ", "c", "o", "u", "l", "d", " ", "n", "o", "t", " ", "b", "e", " ", "o",
      "p", "e", "n", "e", "d", ".">>)

\* a failure of the backend that names no missing algorithm
MsgTimeout == Text(<<"t", "i", "m", "e", "o", "u", "t">>)

MsgUnreadable ==
    Text(<<"S", "A", "G", "A", " ", "s", "h", "a", "d", "e", " ", "r", "a", "s", "t", "e",
      "r", " ", "c", "o", "u", "l", "d", " ", "n", "o", "t", " ", "b", "e", " ", "r",
      "e", "a", "d", ".">>)

\* raised by _write_shadow_mask, line 337
MsgShape ==
    Text(<<"S", "h", "a", "d", "o", "w", " ", "m", "a", "s", "k", " ", "d", "i", "m", "e",
      "n", "s", "i", "o", "n", "s", " ", "d", "o", " ", "n", "o", "t", " ", "m", "a",
      "t", "c", "h", " ", "i", "n", "p", "u", "t", " ", "r", "a", "s", "t", "e", "r",
      ".">>)

\* The file cannot be created: drv.Create of line 354 returns None (the GDAL
\* bindings raise nothing unless UseExceptions was called, and the tool does
\* not call it), and line 368 raises AttributeError with this text
MsgWrite ==
    Text(<<"'", "N", "o", "n", "e", "T", "y", "p", "e", "'", " ", "o", "b", "j", "e", "c",
      "t", " ", "h", "a", "s", " ", "n", "o", " ", "a", "t", "t", "r", "i", "b", "u",
      "t", "e", " ", "'", "S", "e", "t", "G", "e", "o", "T", "r", "a", "n", "s", "f",
      "o", "r", "m", "'">>)

\* raised in the strip loop, line 529
MsgAborted == Text(<<"A", "b", "o", "r", "t", "e", "d">>)

SagaMsgs ==
    {MsgNotFound, MsgAlgorithm, MsgProvider, MsgTimeout, MsgNoShade, MsgUnopened,
     MsgUnreadable}

\* IsUnavailable with every error taken for "unavailable"
IsUnavailableAny(err) == TRUE

\* the test of line 722 on msg = str(saga_err).lower(); `and` binds tighter
\* than `or`
IsUnavailable(err) ==
    LET msg == Lower(err)
    IN  \/ Contains(msg, Text(<<"n", "o", "t", " ", "f", "o", "u", "n", "d">>))
        \/ /\ Contains(msg, Text(<<"a", "l", "g", "o", "r", "i", "t", "h", "m">>))
           /\ Contains(msg, Text(<<"n", "o", "t">>))
           /\ Contains(msg, Text(<<"f", "o", "u", "n", "d">>))
        \/ Contains(msg, Text(<<"s", "a", "g", "a", "n", "g">>))

(***************************************************************************)
(* processAlgorithm, lines 640-771                                         *)
(***************************************************************************)
\* _MAX_DIST, line 60
MAX_DIST == 0

\* _EDGE_BIAS_PX, line 59: -0.5 pixel
EDGE_BIAS_PX == -(FScale \div 2)

\* __RAY_GAP_MAX, line 64
RAY_GAP_MAX == 3

\* gap_max of lines 523-525
GapMax == IF RAY_GAP_MAX < 0 THEN 0 ELSE RAY_GAP_MAX

NoDem == [Z |-> << >>, mask_nd |-> << >>, nodata |-> 0, ny |-> 0, nx |-> 0,
          cellx |-> 1, celly |-> 1]

NoRow == [name |-> << >>, az |-> 0, alt |-> 0, cval |-> 0, out_path |-> << >>]

\* the error _prepare_dem ends with before it reads the grid (lines 282-291),
\* or "ok"
PrepareDemFault(p) ==
    IF ~p.dem_opened THEN "LE raster could not be opened."
    ELSE IF ~p.band_read THEN "DEM band could not be read."
    ELSE "ok"

\* the error _read_table ends with (lines 252-257, 193, 226, 229), or "ok"
ReadTableFault(p) ==
    IF p.table_ext = ".csv"
    THEN IF p.csv_blank THEN "CSV file is empty." ELSE "ok"
    ELSE IF p.table_ext \in {".xlsx", ".xls"}
    THEN IF ~p.excel_opened THEN "Excel file could not be opened."
         ELSE IF ~p.sheet_found THEN "No Excel sheet found."
         ELSE "ok"
    ELSE "Only .csv, .xlsx, and .xls formats are supported."

\* ConfigFault without the test of the CRS (line 646)
ConfigFaultNoCrs(p) ==
    IF ~p.raster_ok THEN "LE raster could not be loaded."
    ELSE IF ~p.table_ok THEN "No valid table specified."
    ELSE IF ~p.out_dir_ok THEN "Missing output folder."
    ELSE IF ~p.out_dir_made THEN "OSError"
    ELSE IF PrepareDemFault(p) # "ok" THEN PrepareDemFault(p)
    ELSE IF ReadTableFault(p) # "ok" THEN ReadTableFault(p)
    ELSE IF p.table = << >> THEN "Table contains no data."
    ELSE "ok"

\* the error processAlgorithm ends with before the row loop, or "ok" (lines
\* 643-676); "OSError" is what os.makedirs raises (line 665), which nothing
\* catches
ConfigFault(p) ==
    IF ~p.raster_ok THEN "LE raster could not be loaded."
    ELSE IF ~p.crs_metric THEN "CRS must be metric (UTM/ETRS89)."
    ELSE IF ~p.table_ok THEN "No valid table specified."
    ELSE IF ~p.out_dir_ok THEN "Missing output folder."
    ELSE IF ~p.out_dir_made THEN "OSError"
    ELSE IF PrepareDemFault(p) # "ok" THEN PrepareDemFault(p)
    ELSE IF ReadTableFault(p) # "ok" THEN ReadTableFault(p)
    ELSE IF p.table = << >> THEN "Table contains no data."
    ELSE "ok"

\* the errors raised after _prepare_dem has returned (lines 674-676)
TableFaults ==
    {"CSV file is empty.", "Excel file could not be opened.", "No Excel sheet found.",
     "Only .csv, .xlsx, and .xls formats are supported.", "Table contains no data."}

\* the errors raised after the settings of lines 667-670 were read (lines 672-676)
LateFaults ==
    TableFaults \cup {"LE raster could not be opened.", "DEM band could not be read."}

\* lines 641-688: parameters, DEM and table are read, the loop state is set up
Start ==
    /\ pc = "start"
    /\ IF ConfigFault(params) # "ok"
       THEN /\ pc' = "done"
            /\ result' = ConfigFault(params)
            /\ dem_info' = IF ConfigFault(params) \in TableFaults
                           THEN PrepareDem(params.raster)
                           ELSE dem_info
            /\ fat_shadow' = IF ConfigFault(params) \in LateFaults
                             THEN params.fat_shadow
                             ELSE fat_shadow
            /\ fat_kernel' = IF ConfigFault(params) \notin LateFaults THEN fat_kernel
                             ELSE IF params.fat_kernel_idx = 0 THEN 3
                             ELSE 2
            /\ UNCHANGED <<rows, saga_enabled, idx, created>>
       ELSE /\ dem_info' = PrepareDem(params.raster)
            /\ rows' = [k \in DOMAIN params.table |-> ReadRow(params.table[k])]
            /\ fat_shadow' = params.fat_shadow
            /\ fat_kernel' = IF params.fat_kernel_idx = 0 THEN 3 ELSE 2
            /\ saga_enabled' = params.prefer_saga
            /\ created' = << >>
            /\ idx' = 1
            /\ pc' = "row"
            /\ UNCHANGED result
    /\ UNCHANGED <<params, shade, canceled, cur, s_idx, shadow, reported, files, calls>>

\* (row.get("name") or "").strip() of line 694 raises AttributeError: the name
\* is a number other than 0
NameRaises(row) == row.name.t = "num" /\ row.name.v # F64Zero

\* the row of the table as lines 694-697 read it; a name that is None or 0
\* counts as ""
RowOf(row) ==
    [name |-> CASE row.name.t = "str" -> Strip(row.name.s, Whitespace)
                [] ~NameRaises(row) -> << >>,
     az |-> ToFloatAgain(row.azimuth),
     alt |-> ToFloatAgain(row.altitude),
     cval |-> ToFloatAgain(row.constant)]

\* the test of line 698
Incomplete(r) ==
    r.name = << >> \/ r.az = F64None \/ r.alt = F64None \/ r.cval = F64None

\* no raster read from the backend (yet)
NoRaster == [arr |-> << >>, ndv |-> None]

\* RowStart with the mask of the previous row kept for the next scan
RowStartKeepMask ==
    /\ pc = "row"
    /\ IF idx > Len(rows) \/ canceled
       THEN /\ pc' = "done"
            /\ result' = IF created = << >> THEN "No shadow masks were created."
                         ELSE "returned"
            /\ UNCHANGED <<idx, cur, s_idx, shadow, reported, shade>>
       ELSE LET r == RowOf(rows[idx])
            IN  IF NameRaises(rows[idx])
                THEN /\ pc' = "done"
                     /\ result' = "uncaught exception"
                     /\ UNCHANGED <<idx, cur, s_idx, shadow, reported, shade>>
                ELSE IF Incomplete(r)
                THEN /\ reported' = Append(reported, <<"incomplete", idx, << >>>>)
                     /\ idx' = idx + 1
                     /\ UNCHANGED <<pc, result, cur, s_idx, shadow, shade>>
                ELSE IF IntRoundRaises(r.az) \/ IntRoundRaises(r.alt)
                THEN /\ pc' = "done"
                     /\ result' = "uncaught exception"
                     /\ UNCHANGED <<idx, cur, s_idx, shadow, reported, shade>>
                ELSE /\ cur' = [name |-> r.name, az |-> Fixed(r.az), alt |-> Fixed(r.alt),
                                cval |-> Fixed(r.cval),
                                out_path |-> OutPath(params.prefix, r.name, params.suffix, r.az, r.alt, r.cval)]
                     /\ shade' = NoRaster
                     /\ IF saga_enabled
                        THEN /\ pc' = "saga"
                             /\ UNCHANGED <<s_idx, shadow>>
                        ELSE /\ pc' = "strips"
                             /\ s_idx' = Geom(dem_info, Fixed(r.az)).s_idx_min
                             /\ shadow' = IF DOMAIN shadow = DOMAIN dem_info.Z
                                          THEN shadow
                                          ELSE NoShadow(dem_info)
                     /\ UNCHANGED <<idx, result, reported>>
    /\ UNCHANGED <<params, dem_info, rows, fat_shadow, fat_kernel, saga_enabled, canceled,
                   created, files, calls>>

\* lines 690-707 and 767-771: the head of the row loop, and what follows the
\* loop; lines 694 and 704 are outside the try of line 709
RowStart ==
    /\ pc = "row"
    /\ IF idx > Len(rows) \/ canceled
       THEN /\ pc' = "done"
            /\ result' = IF created = << >> THEN "No shadow masks were created."
                         ELSE "returned"
            /\ UNCHANGED <<idx, cur, s_idx, shadow, reported, shade>>
       ELSE LET r == RowOf(rows[idx])
            IN  IF NameRaises(rows[idx])
                THEN /\ pc' = "done"
                     /\ result' = "uncaught exception"
                     /\ UNCHANGED <<idx, cur, s_idx, shadow, reported, shade>>
                ELSE IF Incomplete(r)
                THEN /\ reported' = Append(reported, <<"incomplete", idx, << >>>>)
                     /\ idx' = idx + 1
                     /\ UNCHANGED <<pc, result, cur, s_idx, shadow, shade>>
                ELSE IF IntRoundRaises(r.az) \/ IntRoundRaises(r.alt)
                THEN /\ pc' = "done"
                     /\ result' = "uncaught exception"
                     /\ UNCHANGED <<idx, cur, s_idx, shadow, reported, shade>>
                ELSE /\ cur' = [name |-> r.name, az |-> Fixed(r.az), alt |-> Fixed(r.alt),
                                cval |-> Fixed(r.cval),
                                out_path |-> OutPath(params.prefix, r.name, params.suffix, r.az, r.alt, r.cval)]
                     /\ shade' = NoRaster
                     /\ IF saga_enabled
                        THEN /\ pc' = "saga"
                             /\ UNCHANGED <<s_idx, shadow>>
                        ELSE /\ pc' = "strips"
                             /\ s_idx' = Geom(dem_info, Fixed(r.az)).s_idx_min
                             /\ shadow' = NoShadow(dem_info)
                     /\ UNCHANGED <<idx, result, reported>>
    /\ UNCHANGED <<params, dem_info, rows, fat_shadow, fat_kernel, saga_enabled, canceled,
                   created, files, calls>>

\* what one backend call can do: raise err, or return the raster arr with nodata
\* value ndv, which the writer then stores or fails to store
SagaOutcomes(dem) ==
    [kind : {"raise"}, err : SagaMsgs, arr : {<< >>}, ndv : {None}, stored : {FALSE}]
    \cup [kind : {"raster"}, err : {<< >>},
          arr : [Cells(dem.ny, dem.nx) -> {Fx(-999), Fx(90)}],
          ndv : {Fx(-999)}, stored : {TRUE}]
    \cup [kind : {"raster"}, err : {<< >>},
          arr : {[c \in Cells(dem.ny, dem.nx) |-> Fx(90)]},
          ndv : {Fx(-999)}, stored : {FALSE}]
    \cup [kind : {"raster"}, err : {<< >>},
          arr : {[c \in Cells(dem.ny, dem.nx) |-> IF c = <<0, 0>> THEN NaN ELSE Fx(-999)],
                 [c \in Cells(dem.ny + 1, dem.nx) |-> Fx(90)]},
          ndv : {None}, stored : {TRUE}]

\* the error the inner try of lines 711-717 ends with, << >> when it ends well
SagaError(dem, o) ==
    IF o.kind = "raise" THEN o.err
    ELSE IF ShapeMismatch(dem, SagaMask(o.arr, o.ndv)) THEN MsgShape
    ELSE IF ~o.stored THEN MsgWrite
    ELSE << >>

\* SagaEnabledAfter with the backend never disabled
SagaEnabledAfterKept(enabled, err) == enabled

\* saga_enabled after the handler of lines 719-724 has seen the error err
SagaEnabledAfter(enabled, err) == IF IsUnavailable(err) THEN FALSE ELSE enabled

\* lines 710-724: one backend attempt, its write, and the handler of its failure;
\* the writer clears the nodata cells of the backend mask in place (line 339)
SagaCall ==
    /\ pc = "saga"
    /\ calls' = Append(calls, idx)
    /\ \E o \in SagaOutcomes(dem_info) :
          LET err == SagaError(dem_info, o)
          IN  /\ shade' = IF o.kind = "raster" THEN [arr |-> o.arr, ndv |-> o.ndv]
                          ELSE NoRaster
              /\ IF err = << >>
                 THEN /\ shadow' = ClearNodata(dem_info, SagaMask(o.arr, o.ndv))
                      /\ files' = (cur.out_path
                                      :> WriteShadowMask(dem_info, SagaMask(o.arr, o.ndv),
                                                         cur.cval))
                                   @@ files
                      /\ created' = Append(created, cur.out_path)
                      /\ idx' = idx + 1
                      /\ pc' = "row"
                      /\ UNCHANGED <<saga_enabled, reported, s_idx>>
                 ELSE /\ reported' = Append(reported, <<"saga", cur.name, err>>)
                      /\ saga_enabled' = SagaEnabledAfter(saga_enabled, err)
                      /\ pc' = "strips"
                      /\ s_idx' = Geom(dem_info, cur.az).s_idx_min
                      /\ shadow' = NoShadow(dem_info)
                      /\ UNCHANGED <<files, created, idx>>
    /\ UNCHANGED <<params, dem_info, rows, fat_shadow, fat_kernel, canceled, cur, result>>

\* ScanStrip that lists the output of an aborted scan
ScanStripListed ==
    /\ pc = "strips"
    /\ s_idx <= Geom(dem_info, cur.az).s_idx_max
    /\ IF canceled
       THEN /\ reported' = Append(reported, <<"error", cur.name, MsgAborted>>)
            /\ idx' = idx + 1
            /\ pc' = "row"
            /\ created' = Append(created, cur.out_path)
            /\ UNCHANGED <<s_idx, shadow>>
       ELSE /\ shadow' = ProcessStrip(dem_info, Geom(dem_info, cur.az), TanAlt(cur.alt),
                                      EpsM(dem_info.cellx, dem_info.celly), MAX_DIST,
                                      GapMax, shadow, s_idx)
            /\ s_idx' = s_idx + 1
            /\ UNCHANGED <<reported, idx, pc, created>>
    /\ UNCHANGED <<params, shade, dem_info, rows, fat_shadow, fat_kernel, saga_enabled,
                   canceled, cur, files, calls, result>>

\* lines 527-603: one pass of the strip loop; an abort is caught by line 753
ScanStrip ==
    /\ pc = "strips"
    /\ s_idx <= Geom(dem_info, cur.az).s_idx_max
    /\ IF canceled
       THEN /\ reported' = Append(reported, <<"error", cur.name, MsgAborted>>)
            /\ idx' = idx + 1
            /\ pc' = "row"
            /\ UNCHANGED <<s_idx, shadow>>
       ELSE /\ shadow' = ProcessStrip(dem_info, Geom(dem_info, cur.az), TanAlt(cur.alt),
                                      EpsM(dem_info.cellx, dem_info.celly), MAX_DIST,
                                      GapMax, shadow, s_idx)
            /\ s_idx' = s_idx + 1
            /\ UNCHANGED <<reported, idx, pc>>
    /\ UNCHANGED <<params, shade, dem_info, rows, fat_shadow, fat_kernel, saga_enabled,
                   canceled, cur, created, files, calls, result>>

\* ScanFinish without the handler of lines 753-755: a failure ends the run
ScanFinishNoCatch ==
    /\ pc = "strips"
    /\ s_idx > Geom(dem_info, cur.az).s_idx_max
    /\ shadow' = ClearNodata(dem_info, Refine(dem_info, shadow, fat_shadow, fat_kernel))
    /\ \E stored \in BOOLEAN :
          IF stored
          THEN /\ files' = (cur.out_path
                               :> WriteShadowMask(dem_info,
                                                  Refine(dem_info, shadow, fat_shadow,
                                                         fat_kernel),
                                                  cur.cval))
                            @@ files
               /\ created' = Append(created, cur.out_path)
               /\ idx' = idx + 1
               /\ pc' = "row"
               /\ UNCHANGED <<reported, result>>
          ELSE /\ pc' = "done"
               /\ result' = "uncaught exception"
               /\ UNCHANGED <<files, created, reported, idx>>
    /\ UNCHANGED <<params, shade, dem_info, rows, fat_shadow, fat_kernel, saga_enabled,
                   canceled, cur, s_idx, calls>>

\* lines 605-638 and 752-755: the mask is refined and written; a failure of the
\* write is caught by line 753.  The writer gets the refined mask and clears its
\* nodata cells in place (line 339) before it builds the raster.
ScanFinish ==
    /\ pc = "strips"
    /\ s_idx > Geom(dem_info, cur.az).s_idx_max
    /\ shadow' = ClearNodata(dem_info, Refine(dem_info, shadow, fat_shadow, fat_kernel))
    /\ \E stored \in BOOLEAN :
          IF stored
          THEN /\ files' = (cur.out_path
                               :> WriteShadowMask(dem_info,
                                                  Refine(dem_info, shadow, fat_shadow,
                                                         fat_kernel),
                                                  cur.cval))
                            @@ files
               /\ created' = Append(created, cur.out_path)
               /\ UNCHANGED reported
          ELSE /\ reported' = Append(reported, <<"error", cur.name, MsgWrite>>)
               /\ UNCHANGED <<files, created>>
    /\ idx' = idx + 1
    /\ pc' = "row"
    /\ UNCHANGED <<params, shade, dem_info, rows, fat_shadow, fat_kernel, saga_enabled,
                   canceled, cur, s_idx, calls, result>>

\* the user asks for cancellation: feedback.isCanceled() is true from now on
Cancel ==
    /\ pc # "done"
    /\ ~canceled
    /\ canceled' = TRUE
    /\ UNCHANGED <<params, shade, dem_info, rows, fat_shadow, fat_kernel, saga_enabled,
                   pc, idx, cur, s_idx, shadow, created, reported, files, calls,
                   result>>

Next == Start \/ RowStart \/ SagaCall \/ ScanStrip \/ ScanFinish \/ Cancel

(***************************************************************************)
(* Inputs                                                                  *)
(***************************************************************************)
\* the longest parameter table
MaxRows == 2

\* the largest grid of the scanner runs: MaxNy rows of MaxNx columns
MaxNy == 2

MaxNx == 3

RawRow(name, az, alt, c) == [name |-> name, azimuth |-> az, altitude |-> alt, constant |-> c]

\* valid rows
RowN5 ==
    RawRow(StrCell(Text(<<"N">>)), StrCell(Text(<<"2", "7", "0">>)), StrCell(Text(<<"4", "5">>)),
           StrCell(Text(<<"5">>)))

\* a name that ends with a vertical tab, an altitude after a no-break space, in
\* exponent form, and a constant with a decimal comma
RowE ==
    RawRow(StrCell(Text(<<"E">>) \o <<11>>), NumCell(FloatOf(Fx(90))),
           StrCell(<<160>> \o Text(<<"3", "e", "1">>)), StrCell(Text(<<"2", ",", "5">>)))

\* rows with a missing name or number
RowNoName == RawRow(StrCell(Text(<<" ">>)), StrCell(Text(<<"0">>)), StrCell(Text(<<"4", "5">>)), StrCell(Text(<<"1">>)))

RowNoAz == RawRow(StrCell(Text(<<"S">>)), StrCell(Text(<<"a", "b", "c">>)), StrCell(Text(<<"4", "5">>)), StrCell(Text(<<"1">>)))

RowNoAlt == RawRow(StrCell(Text(<<"S">>)), StrCell(Text(<<"0">>)), NoneCell, StrCell(Text(<<"1">>)))

RowNoConst == RawRow(StrCell(Text(<<"S">>)), StrCell(Text(<<"0">>)), StrCell(Text(<<"4", "5">>)), StrCell(<<>>))

\* rows with a number that is not finite
RowNanAz == RawRow(StrCell(Text(<<"W">>)), StrCell(Text(<<"n", "a", "n">>)), StrCell(Text(<<"4", "5">>)), StrCell(Text(<<"1">>)))

RowInfAlt == RawRow(StrCell(Text(<<"W">>)), StrCell(Text(<<"0">>)), NumCell(FloatOf(PosInf)), StrCell(Text(<<"1">>)))

RowNanConst == RawRow(StrCell(Text(<<"Q">>)), StrCell(Text(<<"1", "8", "0">>)), StrCell(Text(<<"6", "0">>)), StrCell(Text(<<"N", "a", "N">>)))

\* rows of a workbook whose name cell is empty, holds the number 0, or holds
\* the number 7
RowNoneName == RawRow(NoneCell, StrCell(Text(<<"0">>)), StrCell(Text(<<"4", "5">>)), StrCell(Text(<<"1">>)))

RowZeroName == RawRow(NumCell(F64Zero), StrCell(Text(<<"0">>)), StrCell(Text(<<"4", "5">>)), StrCell(Text(<<"1">>)))

RowNumName == RawRow(NumCell(FloatOf(Fx(7))), StrCell(Text(<<"0">>)), StrCell(Text(<<"4", "5">>)), StrCell(Text(<<"1">>)))

RunRows == {RowN5, RowE, RowNoName, RowNoAz, RowNoAlt, RowNoConst,
            RowNanAz, RowInfAlt, RowNanConst, RowNoneName, RowZeroName, RowNumName}

RECURSIVE SeqsUpTo(_, _)
\* the sequences over S of length 0 .. n
SeqsUpTo(S, n) ==
    IF n = 0 THEN {<< >>}
    ELSE LET shorter == SeqsUpTo(S, n - 1)
         IN  shorter \cup {Append(q, x) : q \in {t \in shorter : Len(t) = n - 1}, x \in S}

\* a raster of ny rows and nx columns of 1 m cells whose band 1 is `band`
Raster(ny, nx, band) ==
    [ny |-> ny, nx |-> nx, cellx |-> 1, celly |-> 1, nodata |-> Fx(-999), band |-> band]

\* the raster of the table runs: an obstacle of 3 m at the west end of a row,
\* a cell of flat ground, and a nodata cell at the east end
RunRasters ==
    {Raster(1, 3, [c \in Cells(1, 3) |->
                      IF c = <<0, 0>> THEN Fx(3) ELSE IF c = <<0, 2>> THEN Fx(-999) ELSE 0])}

DefaultParams ==
    [raster_ok |-> TRUE, crs_metric |-> TRUE, table_ok |-> TRUE, out_dir_ok |-> TRUE,
     out_dir_made |-> TRUE, dem_opened |-> TRUE, band_read |-> TRUE,
     table_ext |-> ".xlsx", csv_blank |-> FALSE, excel_opened |-> TRUE,
     sheet_found |-> TRUE,
     raster |-> Raster(1, 2, [c \in Cells(1, 2) |-> 0]), table |-> <<RowN5>>,
     prefix |-> << >>, suffix |-> << >>,
     prefer_saga |-> TRUE, fat_shadow |-> FALSE, fat_kernel_idx |-> 0]

\* the table files of the runs with a broken configuration: a CSV file with a
\* row, one without any line that is not blank, workbooks that open or not and
\* hold the sheet or not, and a file with another extension
TableFiles ==
    {[table_ext |-> ".csv", csv_blank |-> b, excel_opened |-> TRUE, sheet_found |-> TRUE,
      table |-> IF b THEN << >> ELSE <<RowN5>>] : b \in BOOLEAN}
    \cup {[table_ext |-> e, csv_blank |-> FALSE, excel_opened |-> o, sheet_found |-> o /\ sh,
           table |-> IF o /\ sh THEN <<RowN5>> ELSE << >>] :
             e \in {".xlsx", ".xls"}, o \in BOOLEAN, sh \in BOOLEAN}
    \cup {[table_ext |-> ".txt", csv_blank |-> FALSE, excel_opened |-> TRUE,
           sheet_found |-> TRUE, table |-> << >>]}

\* the parameter sets of the table runs: every table on every raster with a
\* sound configuration, and every broken configuration once
RunParams ==
    {[DefaultParams EXCEPT !.raster = r, !.table = t, !.prefer_saga = ps,
                           !.fat_shadow = fk[1], !.fat_kernel_idx = fk[2]] :
        r \in RunRasters, t \in SeqsUpTo(RunRows, MaxRows), ps \in BOOLEAN,
        fk \in {<<FALSE, 0>>, <<TRUE, 1>>}}
    \cup {[DefaultParams EXCEPT !.raster_ok = f[1], !.crs_metric = f[2],
                                !.table_ok = f[3], !.out_dir_ok = f[4],
                                !.out_dir_made = g[1], !.dem_opened = g[2],
                                !.band_read = g[3], !.table_ext = t.table_ext,
                                !.csv_blank = t.csv_blank,
                                !.excel_opened = t.excel_opened,
                                !.sheet_found = t.sheet_found, !.table = t.table,
                                !.fat_shadow = fk[1], !.fat_kernel_idx = fk[2]] :
             f \in BOOLEAN \X BOOLEAN \X BOOLEAN \X BOOLEAN,
             g \in BOOLEAN \X BOOLEAN \X BOOLEAN, t \in TableFiles,
             fk \in {<<FALSE, 0>>, <<TRUE, 1>>}}

\* the state in which processAlgorithm is called
Init ==
    /\ params \in RunParams
    /\ dem_info = NoDem
    /\ rows = << >>
    /\ fat_shadow = FALSE
    /\ fat_kernel = 3
    /\ saga_enabled = FALSE
    /\ canceled = FALSE
    /\ pc = "start"
    /\ idx = 0
    /\ cur = NoRow
    /\ s_idx = 0
    /\ shadow = << >>
    /\ created = << >>
    /\ reported = << >>
    /\ files = << >>
    /\ calls = << >>
    /\ shade = NoRaster
    /\ result = "running"

Spec == Init /\ [][Next]_vars

(***************************************************************************)
(* Runs of the Horizon Scanner: one table row, the backend not preferred   *)
(***************************************************************************)
\* a grid of base height `base` with at most one obstacle 3 m higher (at ob)
\* and at most one nodata cell (at nd); << >> stands for "no such cell"
Terrain(ny, nx, size, base, ob, nd) ==
    [ny |-> ny, nx |-> nx, cellx |-> size[1], celly |-> size[2], nodata |-> Fx(-999),
     band |-> [c \in Cells(ny, nx) |-> IF c = nd THEN Fx(-999)
                                       ELSE IF c = ob THEN base + Fx(3)
                                       ELSE base]]

\* every such grid on ground of height 0, and the grids without an obstacle on
\* ground of height 2
ScanRasters ==
    UNION {{Terrain(ny, nx, size, 0, ob, nd) :
               size \in {<<1, 1>>, <<2, 1>>},
               ob \in Cells(ny, nx) \cup {<< >>}, nd \in Cells(ny, nx) \cup {<< >>}}
           \cup {Terrain(ny, nx, size, Fx(2), << >>, nd) :
                    size \in {<<1, 1>>, <<2, 1>>}, nd \in Cells(ny, nx) \cup {<< >>}} :
           ny \in 1 .. MaxNy, nx \in 1 .. MaxNx}

\* the grid of the end-to-end scenario: 10 x 10 cells of 1 m, a spike of 10 m
SpikeRaster ==
    Raster(10, 10, [c \in Cells(10, 10) |-> IF c = <<5, 5>> THEN Fx(10) ELSE 0])

\* a flat grid of 3 x 3 cells of 3 m x 2 m: under a diagonal azimuth the cells
\* of column 1 lie midway between two strip centres
TieRaster == Terrain(3, 3, <<3, 2>>, 0, << >>, << >>)

TieAzimuths == {Fx(45), Fx(135), Fx(225), Fx(315)}

\* a grid of 4 x 5 cells of 30 m x 20 m with two obstacles of 30 m: under azimuth
\* 45 the cells (1,1), (2,1) and (3,1) are each in two strips
SharedRaster ==
    [ny |-> 4, nx |-> 5, cellx |-> 30, celly |-> 20, nodata |-> Fx(-999),
     band |-> [c \in Cells(4, 5) |-> IF c \in {<<0, 3>>, <<2, 2>>} THEN Fx(30) ELSE 0]]

\* a row of two cells, the west one holding the lowest float32 (the filler of a
\* raster whose nodata value is not declared as such)
LowRaster == Raster(1, 2, [c \in Cells(1, 2) |-> IF c = <<0, 0>> THEN F32Lowest ELSE 0])

ScanAzimuths == {Fx(45 * k) : k \in 0 .. 7}

\* 45, 30 and 60 degrees, and 629 units of 2^-21 degree (0.0003 degree)
ScanAltitudes == {Fx(45), Fx(30), Fx(60), 629}

ScanRow(az, alt) == RawRow(StrCell(Text(<<"N">>)), NumCell(FloatOf(az)), NumCell(FloatOf(alt)), StrCell(Text(<<"1">>)))

ScanParams ==
    {[DefaultParams EXCEPT !.raster = r, !.table = <<ScanRow(az, alt)>>,
                           !.prefer_saga = FALSE,
                           !.fat_shadow = fk[1], !.fat_kernel_idx = fk[2]] :
        r \in ScanRasters, az \in ScanAzimuths, alt \in ScanAltitudes,
        fk \in {<<FALSE, 0>>, <<TRUE, 0>>, <<TRUE, 1>>}}
    \cup {[DefaultParams EXCEPT !.raster = SpikeRaster,
                                !.table = <<ScanRow(Fx(270), Fx(45))>>,
                                !.prefer_saga = FALSE]}
    \cup {[DefaultParams EXCEPT !.raster = SharedRaster,
                                !.table = <<ScanRow(Fx(45), Fx(30))>>,
                                !.prefer_saga = FALSE]}
    \cup {[DefaultParams EXCEPT !.raster = TieRaster,
                                !.table = <<ScanRow(az, Fx(45))>>,
                                !.prefer_saga = FALSE] : az \in TieAzimuths}
    \cup {[DefaultParams EXCEPT !.raster = LowRaster,
                                !.table = <<ScanRow(az, Fx(45))>>,
                                !.prefer_saga = FALSE] : az \in {Fx(90), Fx(270)}}

InitScan ==
    /\ params \in ScanParams
    /\ dem_info = NoDem
    /\ rows = << >>
    /\ fat_shadow = FALSE
    /\ fat_kernel = 3
    /\ saga_enabled = FALSE
    /\ canceled = FALSE
    /\ pc = "start"
    /\ idx = 0
    /\ cur = NoRow
    /\ s_idx = 0
    /\ shadow = << >>
    /\ created = << >>
    /\ reported = << >>
    /\ files = << >>
    /\ calls = << >>
    /\ shade = NoRaster
    /\ result = "running"

NextScan == Start \/ RowStart \/ ScanStrip \/ ScanFinish

SpecScan == InitScan /\ [][NextScan]_vars

(***************************************************************************)
(* Runs that exercise the Mask Writer: one table row, either backend, DEM  *)
(* rows of negative, zero, positive and nodata cells                       *)
(***************************************************************************)
\* the longest DEM row of these runs
MaxWriteLen == 2

WriteRasters ==
    UNION {{Raster(1, n, band) : band \in [Cells(1, n) -> {Fx(-1), 0, Fx(3), Fx(-999)}]} :
           n \in 1 .. MaxWriteLen}

\* 5, 5 + 2^-21, 5 + 3 * 2^-21, 1, and 9 + 2^-21, which is no Float32 number
WriteConstants == {Fx(5), Fx(5) + 1, Fx(5) + 3, Fx(1), Fx(9) + 1}

WriteParams ==
    {[DefaultParams EXCEPT !.raster = r,
                           !.table = <<RawRow(StrCell(Text(<<"N">>)), NumCell(FloatOf(az)), NumCell(FloatOf(Fx(45))), NumCell(FloatOf(c)))>>,
                           !.prefer_saga = ps] :
        r \in WriteRasters, az \in {Fx(90), Fx(270)}, c \in WriteConstants, ps \in BOOLEAN}

InitWrite ==
    /\ params \in WriteParams
    /\ dem_info = NoDem
    /\ rows = << >>
    /\ fat_shadow = FALSE
    /\ fat_kernel = 3
    /\ saga_enabled = FALSE
    /\ canceled = FALSE
    /\ pc = "start"
    /\ idx = 0
    /\ cur = NoRow
    /\ s_idx = 0
    /\ shadow = << >>
    /\ created = << >>
    /\ reported = << >>
    /\ files = << >>
    /\ calls = << >>
    /\ shade = NoRaster
    /\ result = "running"

NextWrite == Start \/ RowStart \/ SagaCall \/ ScanStrip \/ ScanFinish

SpecWrite == InitWrite /\ [][NextWrite]_vars

(***************************************************************************)
(* Runs over tables of valid rows only, either backend: the output paths   *)
(***************************************************************************)
\* a valid row that differs from RowN5 in its label only
RowNDot ==
    RawRow(StrCell(Text(<<"N", ".">>)), StrCell(Text(<<"2", "7", "0">>)), StrCell(Text(<<"4", "5">>)), StrCell(Text(<<"5">>)))

PathRows == {RowN5, RowNDot, RowE}

PathParams ==
    {[DefaultParams EXCEPT !.raster = r, !.table = t, !.prefer_saga = ps] :
        r \in RunRasters, t \in SeqsUpTo(PathRows, MaxRows), ps \in BOOLEAN}

InitPaths ==
    /\ params \in PathParams
    /\ dem_info = NoDem
    /\ rows = << >>
    /\ fat_shadow = FALSE
    /\ fat_kernel = 3
    /\ saga_enabled = FALSE
    /\ canceled = FALSE
    /\ pc = "start"
    /\ idx = 0
    /\ cur = NoRow
    /\ s_idx = 0
    /\ shadow = << >>
    /\ created = << >>
    /\ reported = << >>
    /\ files = << >>
    /\ calls = << >>
    /\ shade = NoRaster
    /\ result = "running"

NextPaths == Start \/ RowStart \/ SagaCall \/ ScanStrip \/ ScanFinish

SpecPaths == InitPaths /\ [][NextPaths]_vars

(***************************************************************************)
(* Runs of the closing alone: _close_and_optionally_dilate applied to a    *)
(* mask, and again to its result                                           *)
(***************************************************************************)
\* every boolean mask on a grid of up to MaxNy x MaxNx cells
CloseMasks ==
    UNION {[Cells(ny, nx) -> BOOLEAN] : ny \in 1 .. MaxNy, nx \in 1 .. MaxNx}

CloseParams ==
    [mask_bool : CloseMasks, extra_dilate : BOOLEAN, kernel_size : {2, 3}]

InitClose ==
    /\ params \in CloseParams
    /\ shadow = params.mask_bool
    /\ pc = "close"
    /\ idx = 0
    /\ dem_info = NoDem
    /\ rows = << >>
    /\ fat_shadow = params.extra_dilate
    /\ fat_kernel = params.kernel_size
    /\ saga_enabled = FALSE
    /\ canceled = FALSE
    /\ cur = NoRow
    /\ s_idx = 0
    /\ created = << >>
    /\ reported = << >>
    /\ files = << >>
    /\ calls = << >>
    /\ shade = NoRaster
    /\ result = "running"

\* one call of _close_and_optionally_dilate on the current mask; idx counts them
CloseStep ==
    /\ pc = "close"
    /\ idx < 2
    /\ shadow' = CloseAndOptionallyDilate(shadow, fat_shadow, fat_kernel)
    /\ idx' = idx + 1
    /\ UNCHANGED <<params, shade, dem_info, rows, fat_shadow, fat_kernel, saga_enabled,
                   canceled, pc, cur, s_idx, created, reported, files, calls, result>>

NextClose == CloseStep

SpecClose == InitClose /\ [][NextClose]_vars

(***************************************************************************)
(* The 1D gap fill on every strip state, lines 577-600                     *)
(***************************************************************************)
MaxGapLen == 8

\* the sorted cell list of a strip that runs along a row of n cells
RowStrip(n) == [k \in 1 .. n |-> <<k - 1, 0, k - 1>>]

\* the mask of a row of up to MaxGapLen cells as the horizon step may leave it
GapParams ==
    [mask_bool : UNION {[Cells(1, n) -> BOOLEAN] : n \in 1 .. MaxGapLen}]

InitGap ==
    /\ params \in GapParams
    /\ shadow = params.mask_bool
    /\ pc = "gap"
    /\ idx = 0
    /\ dem_info = NoDem
    /\ rows = << >>
    /\ fat_shadow = FALSE
    /\ fat_kernel = 3
    /\ saga_enabled = FALSE
    /\ canceled = FALSE
    /\ cur = NoRow
    /\ s_idx = 0
    /\ created = << >>
    /\ reported = << >>
    /\ files = << >>
    /\ calls = << >>
    /\ shade = NoRaster
    /\ result = "running"

\* the gap fill of the strip that holds the row's cells in column order
GapStep ==
    /\ pc = "gap"
    /\ idx = 0
    /\ shadow' = GapFillStrip(shadow, RowStrip(Cardinality(DOMAIN shadow)), GapMax)
    /\ idx' = 1
    /\ UNCHANGED <<params, shade, dem_info, rows, fat_shadow, fat_kernel, saga_enabled,
                   canceled, pc, cur, s_idx, created, reported, files, calls, result>>

NextGap == GapStep

SpecGap == InitGap /\ [][NextGap]_vars

(***************************************************************************)
(* Properties                                                              *)
(***************************************************************************)
\* the parameters of the end-to-end scenario
SpikeScenario ==
    /\ params.raster = SpikeRaster
    /\ params.table = <<ScanRow(Fx(270), Fx(45))>>
    /\ ~params.fat_shadow

SpikeShadow == [c \in Cells(10, 10) |-> c \in {<<5, 6>>, <<5, 7>>, <<5, 8>>, <<5, 9>>}]

\* C1: on the 10 x 10 grid of 1 m cells with height 0 and a spike of 10 m at
\* row 5, column 5, azimuth 270 and altitude 45, fat shadows off, the mask the
\* scanner ends with (after gap fill and closing) is true exactly at row 5,
\* columns 6 to 9.
C1_SpikeScenario == (SpikeScenario /\ idx = 2) => shadow = SpikeShadow

C1_Witness ==
    /\ SpikeScenario
    /\ idx = 2
    /\ Len(created) = 1
    /\ shadow[<<5, 6>>] /\ shadow[<<5, 9>>] /\ ~shadow[<<5, 5>>] /\ ~shadow[<<4, 6>>]

\* C2: every nodata cell of every written output holds the nodata sentinel (not
\* the constant, not 5); while the scanner runs, no strip's cell list contains a
\* nodata cell and no nodata cell is classified.
C2_NodataContainment ==
    /\ \A p \in DOMAIN files : \A c \in DOMAIN files[p] :
          dem_info.mask_nd[c] =>
             /\ files[p][c] = params.raster.nodata
             /\ files[p][c] # Fx(5)
             /\ files[p][c] # ToFloat32(cur.cval)
    /\ pc = "strips" =>
          LET g == Geom(dem_info, cur.az)
          IN  /\ \A sx \in g.s_idx_min .. g.s_idx_max :
                    LET cells == StripCells(dem_info, g, sx)
                    IN  \A k \in DOMAIN cells :
                           ~dem_info.mask_nd[<<cells[k][2], cells[k][3]>>]
              /\ \A c \in DOMAIN shadow : dem_info.mask_nd[c] => ~shadow[c]

C2_Witness ==
    /\ Len(created) = 1
    /\ \E c, d \in DOMAIN files[cur.out_path] :
          /\ dem_info.mask_nd[c]
          /\ files[cur.out_path][c] = Fx(-999)
          /\ files[cur.out_path][d] = ToFloat32(cur.cval)

\* a grid of uniform height without nodata
FlatRaster(r) ==
    \A c, d \in DOMAIN r.band : r.band[c] = r.band[d] /\ r.band[c] # r.nodata

\* C3: on a grid of uniform height without nodata the scanner's final mask is
\* false at every cell, for every azimuth and every altitude above 0 degrees.
C3_FlatSurface ==
    (FlatRaster(params.raster) /\ idx = 2) => \A c \in DOMAIN shadow : ~shadow[c]

\* C4: in an output written with the constant 5, every non-nodata cell of
\* strictly positive elevation holds 5, whatever the mask says there and
\* whichever backend produced the mask.
C4_Class5Override ==
    (cur.cval = Fx(5) /\ Len(created) = 1) =>
       \A c \in DOMAIN files[cur.out_path] :
          (params.raster.band[c] # params.raster.nodata /\ params.raster.band[c] > 0)
             => files[cur.out_path][c] = Fx(5)

C4_Witness ==
    /\ cur.cval = Fx(5)
    /\ Len(created) = 1
    /\ \E c \in DOMAIN files[cur.out_path] :
          /\ params.raster.band[c] = Fx(3)
          /\ ~shadow[c]
          /\ files[cur.out_path][c] = Fx(5)

\* C5: in an output written with a constant other than 5, every non-nodata
\* cell holds the constant (as a Float32 number) where the mask handed to the
\* writer is true and 0 elsewhere, whatever its elevation.
C5_NoOverride ==
    (cur.cval # Fx(5) /\ Len(created) = 1) =>
       \A c \in DOMAIN files[cur.out_path] :
          params.raster.band[c] # params.raster.nodata =>
             files[cur.out_path][c] = IF shadow[c] THEN ToFloat32(cur.cval) ELSE 0

\* |c - 5| < 1e-6 for a constant c in units of 2^-21
Near5(c) == c \in {Fx(5) - 2, Fx(5) - 1, Fx(5), Fx(5) + 1, Fx(5) + 2}

\* C5, amended: for a constant c with |c - 5| >= 1e-6 every non-nodata cell
\* holds c (as a Float32 number) where the mask handed to the writer is true
\* and 0 elsewhere, whatever its elevation; the obstacle override is applied
\* exactly for the constants with |c - 5| < 1e-6.
C5_NoOverrideBeyondTolerance ==
    Len(created) = 1 =>
       \A c \in DOMAIN files[cur.out_path] :
          params.raster.band[c] # params.raster.nodata =>
             files[cur.out_path][c] =
                IF Near5(cur.cval) /\ params.raster.band[c] > 0 THEN Fx(5)
                ELSE IF shadow[c] THEN ToFloat32(cur.cval)
                ELSE 0

C5_Witness ==
    /\ cur.cval = Fx(5) + 3
    /\ Len(created) = 1
    /\ \E c, d \in DOMAIN files[cur.out_path] :
          /\ params.raster.band[c] = Fx(3)
          /\ ~shadow[c]
          /\ files[cur.out_path][c] = 0
          /\ shadow[d]
          /\ files[cur.out_path][d] = Fx(5) + 3

Last(q) == q[Len(q)]

\* the backend errors whose message line 722 takes for "unavailable"
UnavailableMsgs == {MsgNotFound, MsgAlgorithm, MsgProvider}

\* a step in which the backend attempt of the current row fails
SagaFailed == pc = "saga" /\ Len(reported') = Len(reported) + 1

\* the row at idx passes the tests of lines 698 and 704
ValidRow ==
    /\ idx <= Len(rows)
    /\ ~NameRaises(rows[idx])
    /\ ~Incomplete(RowOf(rows[idx]))
    /\ ~IntRoundRaises(RowOf(rows[idx]).az)
    /\ ~IntRoundRaises(RowOf(rows[idx]).alt)

\* C6: the backend is called only while saga_enabled is true; saga_enabled
\* turns false exactly at a backend error recognised as "unavailable", never
\* turns true again, and while it is false no row goes to the backend.
C6_AdapterTransition ==
    [][/\ (calls' # calls) => (saga_enabled /\ pc = "saga")
       /\ (pc = "row" /\ pc' = "saga") => saga_enabled
       /\ (pc # "start" /\ ~saga_enabled) => ~saga_enabled'
       /\ (pc # "start" /\ saga_enabled /\ ~saga_enabled')
             => (SagaFailed /\ Last(reported')[3] \in UnavailableMsgs)
       /\ (SagaFailed /\ Last(reported')[3] \in UnavailableMsgs) => ~saga_enabled'
      ]_vars

C6_Witness ==
    /\ params.prefer_saga
    /\ ~saga_enabled
    /\ calls = <<1>>
    /\ idx = 3
    /\ Len(created) = 2
    /\ Len(reported) = 1
    /\ reported[1][3] \in UnavailableMsgs

\* C7: a backend error that is not recognised as "unavailable" (a failed write
\* of the backend's mask included) is reported with the row's label, leaves
\* saga_enabled true and sends the same row to the Horizon Scanner, whose mask
\* becomes the row's output; the next valid row goes to the backend again.
C7_PerRowBackendFailure ==
    [][/\ (SagaFailed /\ Last(reported')[3] \notin UnavailableMsgs) =>
             /\ Last(reported')[1] = "saga"
             /\ Last(reported')[2] = cur.name
             /\ saga_enabled'
             /\ pc' = "strips"
             /\ idx' = idx
             /\ cur' = cur
             /\ s_idx' = Geom(dem_info, cur.az).s_idx_min
             /\ shadow' = NoShadow(dem_info)
             /\ created' = created
       /\ (pc = "strips" /\ created' # created) =>
             /\ created' = Append(created, cur.out_path)
             /\ files'[cur.out_path] = WriteShadowMask(dem_info, shadow', cur.cval)
             /\ idx' = idx + 1
       /\ (pc = "row" /\ saga_enabled /\ ~canceled /\ ~canceled' /\ ValidRow) => pc' = "saga"
      ]_vars

C7_Witness ==
    /\ saga_enabled
    /\ calls = <<1, 2>>
    /\ Len(reported) = 1
    /\ reported[1][1] = "saga"
    /\ reported[1][3] = MsgWrite
    /\ Len(created) >= 1

\* a state in which the code looks at the cancellation flag and finds it set
CancelObserved ==
    /\ canceled
    /\ \/ pc = "row" /\ idx <= Len(rows)
       \/ pc = "strips" /\ s_idx <= Geom(dem_info, cur.az).s_idx_max

\* C8: when the code finds cancellation requested, at the start of a row or in
\* the strip loop, the run ends there with an error that is neither a per-row
\* error nor the zero-outputs failure, and the outputs written so far stay.
C8_Cancellation ==
    [][CancelObserved =>
          /\ pc' = "done"
          /\ result' \notin {"running", "returned", "No shadow masks were created."}
          /\ reported' = reported
          /\ created' = created
          /\ files' = files
      ]_vars

\* a row that is malformed or incomplete: no name, or a number missing or not finite
Malformed(r) ==
    \/ r.name = << >>
    \/ \E v \in {r.az, r.alt, r.cval} : v = F64None \/ ~F64Finite(v)

\* the row at idx is malformed or incomplete
MalformedRow == ~NameRaises(rows[idx]) /\ Malformed(RowOf(rows[idx]))

\* C9: a malformed or incomplete row is reported, gets no output, and the loop
\* goes on to the next row; the run does not end there.
C9_MalformedRows ==
    [][(pc = "row" /\ ~canceled /\ ~canceled' /\ idx <= Len(rows) /\ MalformedRow) =>
          /\ Len(reported') = Len(reported) + 1
          /\ idx' = idx + 1
          /\ pc' = "row"
          /\ result' = "running"
          /\ created' = created
          /\ files' = files
      ]_vars

\* a step in which the Horizon Scanner raises
ScannerFailed == pc = "strips" /\ Len(reported') = Len(reported) + 1

\* C10: when the Horizon Scanner raises for a row, as first choice or as
\* fallback, the error is reported with the row's label, no output is added,
\* and the loop goes on with the next row.
C10_ScannerFailurePerRow ==
    [][/\ ScannerFailed =>
             /\ Last(reported')[1] = "error"
             /\ Last(reported')[2] = cur.name
             /\ created' = created
             /\ files' = files
             /\ pc' = "row"
             /\ idx' = idx + 1
             /\ result' = "running"
       /\ (pc = "strips" /\ pc' # "strips") => (pc' = "row" /\ idx' = idx + 1)
      ]_vars

C10_Witness ==
    /\ idx = 3
    /\ Len(reported) = 2
    /\ reported[1][1] = "saga"
    /\ reported[2] = <<"error", RowOf(rows[1]).name, MsgWrite>>
    /\ created = <<OutPath(params.prefix, RowOf(rows[2]).name, params.suffix,
                           RowOf(rows[2]).az, RowOf(rows[2]).alt,
                           RowOf(rows[2]).cval)>>

\* C11: once the row loop has started, the run returns successfully exactly
\* when at least one output was produced; without any output it ends with an
\* error.
C11_BatchOutcome ==
    (pc = "done" /\ idx >= 1) => (result = "returned" <=> created # << >>)

\* a run whose configuration is broken: raster, CRS, table, output folder, or
\* a table without rows
ConfigBroken ==
    \/ ~params.raster_ok
    \/ ~params.crs_metric
    \/ ~params.table_ok
    \/ ~params.out_dir_ok
    \/ params.table = << >>

\* C12: a run with a broken configuration ends with an error before the first
\* row: the backend is never called, no mask is computed, nothing is written.
C12_ConfigErrorsEarly ==
    ConfigBroken =>
       /\ pc \in {"start", "done"}
       /\ calls = << >>
       /\ DOMAIN shadow = {}
       /\ DOMAIN files = {}
       /\ created = << >>
       /\ reported = << >>
       /\ pc = "done" => result \notin {"running", "returned", "uncaught exception"}

C12_Witness ==
    /\ pc = "done"
    /\ ~params.crs_metric
    /\ params.raster_ok
    /\ result = "CRS must be metric (UTM/ETRS89)."

\* the backend raster r read as booleans: true where the value is a finite
\* number other than the raster's nodata value
BackendBool(r) ==
    [c \in DOMAIN r.arr |->
        IF r.arr[c] \in {NaN, PosInf, NegInf} THEN FALSE
        ELSE IF r.ndv # None /\ r.arr[c] = r.ndv THEN FALSE
        ELSE TRUE]

\* C13: when the backend call of a row succeeds, the file of the row is the
\* backend raster read as booleans as the writer stores it, and the mask the
\* writer leaves behind is that boolean raster with the nodata cells of the DEM
\* cleared (line 339): no gap fill, closing or dilation touched it, with fat
\* shadows on or off.
C13_BackendMaskAsIs ==
    [][(pc = "saga" /\ created' # created) =>
          /\ shade' # NoRaster
          /\ shadow' = ClearNodata(dem_info, BackendBool(shade'))
          /\ files'[cur.out_path]
                = WriteShadowMask(dem_info, BackendBool(shade'), cur.cval)]_vars

\* the first row was computed by the backend with fat shadows on, and the
\* post-processing of the scanner would have changed its mask
C13_Witness ==
    /\ pc = "row"
    /\ fat_shadow
    /\ Len(calls) = 1
    /\ Len(created) = 1
    /\ reported = << >>
    /\ shade # NoRaster
    /\ shadow = ClearNodata(dem_info, BackendBool(shade))
    /\ \E c \in DOMAIN shadow : dem_info.mask_nd[c] /\ BackendBool(shade)[c]
    /\ \E c \in DOMAIN shadow :
          /\ ~dem_info.mask_nd[c]
          /\ Refine(dem_info, BackendBool(shade), fat_shadow, fat_kernel)[c] # shadow[c]

\* the grid is 0 everywhere but at one cell, and has no nodata cell
SingleSpike ==
    /\ \A c \in DOMAIN dem_info.Z : ~dem_info.mask_nd[c] /\ dem_info.Z[c] >= 0
    /\ Cardinality({c \in DOMAIN dem_info.Z : dem_info.Z[c] > 0}) = 1

SpikeCell == CHOOSE c \in DOMAIN dem_info.Z : dem_info.Z[c] > 0

\* the coordinate of cell c along the light, to the nearest fixed-point unit
AlongLight(g, c) == c[1] * g.dL_row + c[2] * g.dL_col

\* cell c lies in a strip of the spike, down-sun of it, no farther than the
\* spike's height over tan(altitude) plus one step, and every cell of that strip
\* between the spike and c is shadowed
InSpikeRun(g, c) ==
    LET sp == SpikeCell
        d == AlongLight(g, c) - AlongLight(g, sp)
        step == Max2(Abs(g.dL_row), Abs(g.dL_col))
    IN  /\ c # sp
        /\ d > 0
        /\ d <= step \/ MulFx(d - step, F64ToUnits(TanAlt(cur.alt))) <= dem_info.Z[sp]
        /\ \E sx \in g.s_idx_min .. g.s_idx_max :
              /\ InStrip(g, sx, sp[1], sp[2])
              /\ InStrip(g, sx, c[1], c[2])
              /\ \A e \in DOMAIN shadow :
                    (/\ InStrip(g, sx, e[1], e[2])
                     /\ AlongLight(g, e) > AlongLight(g, sp)
                     /\ AlongLight(g, e) < AlongLight(g, c)) => shadow[e]

\* C14: on a grid that is 0 but for one elevated cell, with fat shadows off, the
\* final mask of the scanner is a contiguous run of cells of the spike's strip,
\* strictly down-sun of the spike and about height / tan(altitude) long; the
\* spike, the cells up-sun of it and the cells of other strips are false.
C14_SingleSpike ==
    (idx = 2 /\ ~fat_shadow /\ SingleSpike) =>
        \A c \in DOMAIN shadow : shadow[c] => InSpikeRun(Geom(dem_info, cur.az), c)

\* the mask _compute_shadow_octant ends with for the sun at (az, alt): the
\* refined mask of lines 605-635 after the writer's clear of line 339
FinalMask(dem, az, alt, fat, kernel) ==
    LET g == Geom(dem, az)
    IN  ClearNodata(dem,
                    Refine(dem,
                           StripLoop(dem, g, TanAlt(alt), EpsM(dem.cellx, dem.celly),
                                     MAX_DIST, GapMax, NoShadow(dem), g.s_idx_min,
                                     g.s_idx_max),
                           fat, kernel))

\* C15: with the grid, the azimuth and the fat-shadow setting fixed, every cell
\* shadowed at the altitude of the run is shadowed at every lower altitude.
C15_AltitudeMonotone ==
    (idx = 2 /\ pc = "row") =>
        \A lower \in {a \in ScanAltitudes : a < cur.alt} :
            \A c \in DOMAIN shadow :
                shadow[c] => FinalMask(dem_info, cur.az, lower, fat_shadow, fat_kernel)[c]

\* a run whose mask is not empty and strictly grows under a lower sun
C15_Witness ==
    /\ idx = 2
    /\ pc = "row"
    /\ \E c \in DOMAIN shadow : shadow[c]
    /\ \E lower \in {a \in ScanAltitudes : a < cur.alt} :
          \E c \in DOMAIN shadow :
             /\ ~shadow[c]
             /\ FinalMask(dem_info, cur.az, lower, fat_shadow, fat_kernel)[c]

\* C16: the closing applied to a mask that already is the result of the closing
\* returns that mask.
C16_ClosingIdempotent ==
    [][(pc = "close" /\ idx = 1 /\ ~fat_shadow) => shadow' = shadow]_vars

\* the closing changed the mask it was given, left some cell false, and has
\* been applied a second time
C16_Witness ==
    /\ pc = "close"
    /\ idx = 2
    /\ ~fat_shadow
    /\ shadow # params.mask_bool
    /\ \E c \in DOMAIN shadow : ~shadow[c]
    /\ \E c \in DOMAIN shadow : shadow[c] /\ ~params.mask_bool[c]

\* the coordinate of cell c across the light and the strip width, in metres
\* under a cardinal azimuth and in multiples of cos 45 under a diagonal one
AcrossLight(g, c) ==
    IF g.diag THEN c[1] * g.dS_rowD[1] + c[2] * g.dS_colD[1]
    ELSE c[1] * (g.dS_row \div FScale) + c[2] * (g.dS_col \div FScale)

WidthAcross(g) == IF g.diag THEN g.strip_wD[1] ELSE g.strip_w \div FScale

\* the strips of the enumerated range whose cell list holds cell c
StripsOf(dem, g, c) ==
    {sx \in g.s_idx_min .. g.s_idx_max :
        \E k \in DOMAIN StripCells(dem, g, sx) :
           <<StripCells(dem, g, sx)[k][2], StripCells(dem, g, sx)[k][3]>> = c}

\* the strips whose centre lies exactly half a strip width from cell c
MidwayStrips(g, c) ==
    {sx \in g.s_idx_min .. g.s_idx_max :
        2 * Abs(AcrossLight(g, c) - sx * WidthAcross(g)) = WidthAcross(g)}

\* C17: while the strip loop runs, every cell that is not nodata is in the cell
\* list of at least one strip of the enumerated range; of exactly one, unless
\* it lies midway between two strip centres, and then of no other strip than
\* those two.
C17_StripPartition ==
    pc = "strips" =>
       LET g == Geom(dem_info, cur.az)
       IN  \A c \in DOMAIN dem_info.Z :
              ~dem_info.mask_nd[c] =>
                 /\ StripsOf(dem_info, g, c) # {}
                 /\ IF MidwayStrips(g, c) = {}
                    THEN Cardinality(StripsOf(dem_info, g, c)) = 1
                    ELSE StripsOf(dem_info, g, c) \subseteq MidwayStrips(g, c)

RECURSIVE StripLoopDown(_, _, _, _, _, _, _, _, _)
\* the strip loop of lines 527-603 taken in descending order, from strip s down
\* to strip first
StripLoopDown(dem, g, tan_alt, eps_m, maxd, gap_max, sh, s, first) ==
    IF s < first THEN sh
    ELSE StripLoopDown(dem, g, tan_alt, eps_m, maxd, gap_max,
                       ProcessStrip(dem, g, tan_alt, eps_m, maxd, gap_max, sh, s),
                       s - 1, first)

\* C18: the mask the strip loop ends with (horizon classification and 1D gap
\* fill, before the closing) does not depend on the order of the strips: taking
\* them in descending order gives the mask the loop produced in ascending
\* order.
C18_StripOrderIndependent ==
    (pc = "strips" /\ s_idx > Geom(dem_info, cur.az).s_idx_max) =>
        LET g == Geom(dem_info, cur.az)
        IN  shadow = StripLoopDown(dem_info, g, TanAlt(cur.alt),
                                   EpsM(dem_info.cellx, dem_info.celly), MAX_DIST,
                                   GapMax, NoShadow(dem_info), g.s_idx_max, g.s_idx_min)

\* C19: the mask the scanner hands to the Mask Writer at line 638 (the strip
\* loop's mask refined by lines 605-635, before the writer touches it) is false
\* at every nodata cell.
C19_HandOffNodataFalse ==
    [][(pc = "strips" /\ pc' = "row" /\ ~canceled) =>
          \A c \in DOMAIN shadow :
              dem_info.mask_nd[c] => ~Refine(dem_info, shadow, fat_shadow, fat_kernel)[c]]_vars

\* the row at position k of the table passes the tests of lines 698 and 704
RowValid(k) ==
    /\ ~NameRaises(rows[k])
    /\ ~Incomplete(RowOf(rows[k]))
    /\ ~IntRoundRaises(RowOf(rows[k]).az)
    /\ ~IntRoundRaises(RowOf(rows[k]).alt)

\* the output path of the row at position k
PathAt(k) ==
    LET r == RowOf(rows[k]) IN OutPath(params.prefix, r.name, params.suffix, r.az, r.alt, r.cval)

\* C20: a row never writes to the output path of a different valid row of the
\* run: when a raster is written, every earlier valid row whose file exists
\* either has another path or is the same row (label, azimuth, altitude and
\* constant).
C20_OneOutputPerRow ==
    [][(files' # files) =>
          \A k \in 1 .. (idx - 1) :
             (RowValid(k) /\ PathAt(k) \in DOMAIN files) =>
                (PathAt(k) # cur.out_path \/ RowOf(rows[k]) = RowOf(rows[idx]))]_vars

\* the azimuth opposite to az
Opposite(az) == (az + Fx(180)) % Fx(360)

\* C21: on a grid that is 0 but for one elevated cell, no cell other than that
\* cell is shadowed both in the final mask for an azimuth and in the final mask
\* for the opposite azimuth (same altitude, same fat-shadow setting).
C21_OppositeAsymmetry ==
    (idx = 2 /\ pc = "row" /\ SingleSpike) =>
        \A c \in DOMAIN shadow :
            (c # SpikeCell /\ shadow[c]) =>
                ~FinalMask(dem_info, Opposite(cur.az), cur.alt, fat_shadow, fat_kernel)[c]

\* the raster the scanner writes for the sun at (az, alt) and the constant
\* cval, computed from the parameters of the run alone
RowRaster(az, alt, cval) ==
    LET dem == PrepareDem(params.raster)
        g == Geom(dem, az)
        kernel == IF params.fat_kernel_idx = 0 THEN 3 ELSE 2
        strips == StripLoop(dem, g, TanAlt(alt), EpsM(dem.cellx, dem.celly), MAX_DIST,
                            GapMax, [c \in Cells(dem.ny, dem.nx) |-> FALSE],
                            g.s_idx_min, g.s_idx_max)
    IN  WriteShadowMask(dem, Refine(dem, strips, params.fat_shadow, kernel), cval)

\* C22: the DEM record is never changed after it was read, and with the
\* backend switched off the raster written for a row is the raster computed
\* from the row's azimuth, altitude and constant and the grid and settings of
\* the run, whatever rows came before it.
C22_NoSharedState ==
    [][/\ pc # "start" => dem_info' = dem_info
       /\ (~params.prefer_saga /\ files' # files) =>
             files'[cur.out_path] = RowRaster(cur.az, cur.alt, cur.cval)]_vars

\* the second row of a table was written by the scanner after a first row with
\* another direction, whose mask was not empty
C22_Witness ==
    /\ ~params.prefer_saga
    /\ idx = 3
    /\ Len(created) = 2
    /\ created[1] # created[2]
    /\ \E c \in DOMAIN files[created[1]] : files[created[1]][c] # files[created[2]][c]

\* the mask _compute_shadow_octant(dem_info, az, alt, ..., maxd, edge_bias_px, ...)
\* ends with, the writer's clear of line 339 included; the body of the function
\* never reads edge_bias_px
ComputeShadowOctant(dem, az, alt, maxd, edge_bias_px, fat, kernel) ==
    LET g == Geom(dem, az)
    IN  ClearNodata(dem,
                    Refine(dem,
                           StripLoop(dem, g, TanAlt(alt), EpsM(dem.cellx, dem.celly),
                                     maxd, GapMax, NoShadow(dem), g.s_idx_min,
                                     g.s_idx_max),
                           fat, kernel))

\* edge biases a caller may pass: the default, none, and half and one pixel forward
EdgeBiases == {EDGE_BIAS_PX, 0, FScale \div 2, Fx(1)}

\* C23: the edge bias takes part in the scan: a finished scan whose mask has both
\* shadowed and lit cells comes out differently under at least one other edge bias.
C23_EdgeBiasApplied ==
    (idx = 2 /\ pc = "row" /\ Len(created) = 1
        /\ (\E c \in DOMAIN shadow : shadow[c]) /\ (\E c \in DOMAIN shadow : ~shadow[c])) =>
        \E b \in EdgeBiases :
            ComputeShadowOctant(dem_info, cur.az, cur.alt, MAX_DIST, b,
                                fat_shadow, fat_kernel)
                # ComputeShadowOctant(dem_info, cur.az, cur.alt, MAX_DIST, EDGE_BIAS_PX,
                                      fat_shadow, fat_kernel)

\* the strip the scan is about to process, and what its horizon step alone marks
CurStrip == StripCells(dem_info, Geom(dem_info, cur.az), s_idx)

\* T of the k-th cell of the current strip, line 569
CurT(k) ==
    RayT(dem_info.Z[<<CurStrip[k][2], CurStrip[k][3]>>], TanAlt(cur.alt),
         F64Sub(CurStrip[k][1], CurStrip[1][1]))

HorizonMarks(maxd) ==
    HorizonPass(dem_info, Geom(dem_info, cur.az), CurStrip, TanAlt(cur.alt),
                EpsM(dem_info.cellx, dem_info.celly), maxd, 1, HorizonInit,
                NoShadow(dem_info))

\* C24: in every strip the horizon step marks a cell exactly when an earlier cell
\* of the sorted strip has a T above this cell's T minus eps; in particular the
\* sunward-most cell of a strip is never marked.
C24_HorizonRule ==
    (pc = "strips" /\ s_idx <= Geom(dem_info, cur.az).s_idx_max) =>
        \A k \in 1 .. Len(CurStrip) :
            HorizonMarks(MAX_DIST)[<<CurStrip[k][2], CurStrip[k][3]>>]
                <=> \E m \in 1 .. (k - 1) :
                        F64Less(MinusEps(CurT(k), EpsM(dem_info.cellx, dem_info.celly)),
                                CurT(m))

\* position t of the row lies in a maximal run of lit cells of mask m that has a
\* shadow cell right before and right after it and at most gap_max cells
InClosedGap(m, n, gap_max, t) ==
    \E a \in 2 .. t, b \in t .. (n - 1) :
        /\ \A u \in a .. b : ~m[<<0, u - 1>>]
        /\ m[<<0, a - 2>>]
        /\ m[<<0, b>>]
        /\ b - a + 1 <= gap_max

\* C25: the gap fill turns a cell of the strip to shadow exactly when it lies in a
\* maximal lit run bounded by shadow on both sides and of at most max-gap cells;
\* every other cell keeps its value.
C25_GapFill ==
    (pc = "gap" /\ idx = 1) =>
        LET n == Cardinality(DOMAIN shadow)
        IN  \A t \in 1 .. n :
                shadow[<<0, t - 1>>]
                    <=> \/ params.mask_bool[<<0, t - 1>>]
                        \/ InClosedGap(params.mask_bool, n, RAY_GAP_MAX, t)

\* a row with a filled gap of three cells and an open gap of four
C25_Witness ==
    /\ pc = "gap" /\ idx = 1
    /\ Cardinality(DOMAIN shadow) = MaxGapLen
    /\ \E t \in 1 .. 3 :
          /\ ~params.mask_bool[<<0, t>>] /\ shadow[<<0, t>>]
    /\ \E t \in 1 .. (MaxGapLen - 2) :
          /\ params.mask_bool[<<0, t - 1>>]
          /\ \A u \in t .. (MaxGapLen - 2) : ~shadow[<<0, u>>]
          /\ shadow[<<0, MaxGapLen - 1>>]
          /\ MaxGapLen - 1 - t > RAY_GAP_MAX

RECURSIVE LastClassified(_, _, _)
\* the position of the last cell the loop of lines 566-575 classifies, from the
\* k-th cell on: the break of line 575 follows the classification of its cell
LastClassified(cells, maxd, k) ==
    IF k >= Len(cells) THEN Len(cells)
    ELSE IF maxd > 0 /\ F64Less(F64Units(maxd), F64Sub(cells[k][1], cells[1][1])) THEN k
    ELSE LastClassified(cells, maxd, k + 1)

\* limits a caller may pass as maxd: 1 m and 2 m
MaxDists == {Fx(1), Fx(2)}

\* C26: with the default limit the horizon step classifies every cell of the
\* strip; with a limit maxd > 0 it neither classifies nor marks a cell whose
\* distance d from the sunward-most cell of the strip exceeds maxd.
C26_MaxDistCutoff ==
    (pc = "strips" /\ s_idx <= Geom(dem_info, cur.az).s_idx_max) =>
        /\ LastClassified(CurStrip, MAX_DIST, 1) = Len(CurStrip)
        /\ \A maxd \in MaxDists : \A k \in 1 .. Len(CurStrip) :
              F64Less(F64Units(maxd), F64Sub(CurStrip[k][1], CurStrip[1][1])) =>
                  /\ k > LastClassified(CurStrip, maxd, 1)
                  /\ ~HorizonMarks(maxd)[<<CurStrip[k][2], CurStrip[k][3]>>]

\* the mask a scan of the current row with fat shadows off ends with
ThinMask == FinalMask(dem_info, cur.az, cur.alt, FALSE, fat_kernel)

\* the mask a scan of the current row with fat shadows off holds after the
\* closing of lines 629-631, as it is handed to the writer at line 638
ThinClosed ==
    LET g == Geom(dem_info, cur.az)
    IN  Refine(dem_info,
               StripLoop(dem_info, g, TanAlt(cur.alt), EpsM(dem_info.cellx, dem_info.celly),
                         MAX_DIST, GapMax, NoShadow(dem_info), g.s_idx_min, g.s_idx_max),
               FALSE, fat_kernel)

\* the window of the kernel placed at cell c holds a true cell of mask m
InWindow(m, c, kernel_size) ==
    LET w == IF kernel_size = 2 THEN {-1, 0} ELSE {-1, 0, 1}
    IN  \E a \in w, b \in w :
            /\ <<c[1] + a, c[2] + b>> \in DOMAIN m
            /\ m[<<c[1] + a, c[2] + b>>]

\* C27: the mask the scanner computes with fat shadows on (lines 605-635, the
\* mask handed to the writer at line 638) holds every cell of the mask it
\* computes from the same strip loop with fat shadows off, and its cells are
\* exactly the cells whose kernel window meets that closed mask: the two differ
\* by the one dilation after the closing.  After the writer's clear of the
\* nodata cells (line 339) the mask of the fat scan still holds every cell of
\* the mask a scan with fat shadows off ends with, and it is the dilation of
\* the closed mask on the cells with data.
C27_FatShadowEnlarges ==
    /\ [][(pc = "strips" /\ pc' = "row" /\ fat_shadow) =>
             \E fat \in {Refine(dem_info, shadow, TRUE, fat_kernel)},
                closed \in {Refine(dem_info, shadow, FALSE, fat_kernel)} :
                 /\ \A c \in DOMAIN closed : closed[c] => fat[c]
                 /\ \A c \in DOMAIN fat : fat[c] <=> InWindow(closed, c, fat_kernel)]_vars
    /\ []((idx = 2 /\ pc = "row" /\ fat_shadow) =>
             \E thin \in {ThinMask}, closed \in {ThinClosed} :
                 /\ \A c \in DOMAIN shadow : thin[c] => shadow[c]
                 /\ \A c \in DOMAIN shadow :
                       shadow[c] <=> (~dem_info.mask_nd[c]
                                         /\ InWindow(closed, c, fat_kernel)))

\* a fat scan with the 2 x 2 kernel on a grid with a nodata cell: it shadows a
\* cell the thin scan leaves lit, and a nodata cell inside the dilation of the
\* thin scan's final mask stays false
C27_Witness ==
    /\ idx = 2 /\ pc = "row" /\ fat_shadow /\ fat_kernel = 2
    /\ \E c \in DOMAIN shadow : shadow[c] /\ ~ThinMask[c]
    /\ \E c \in DOMAIN shadow :
          dem_info.mask_nd[c] /\ ~shadow[c] /\ BinaryDilate(ThinMask, fat_kernel)[c]

\* mask a holds every cell of mask b
Covers(a, b) == \A c \in DOMAIN b : b[c] => a[c]

\* the horizon step of some strip of the current scan marks cell c
HorizonMarked(c) ==
    LET g == Geom(dem_info, cur.az)
    IN  \E s \in g.s_idx_min .. g.s_idx_max :
            HorizonPass(dem_info, g, StripCells(dem_info, g, s), TanAlt(cur.alt),
                        EpsM(dem_info.cellx, dem_info.celly), MAX_DIST, 1, HorizonInit,
                        NoShadow(dem_info))[c]

\* C28: in the scanner no step turns a shadowed non-nodata cell back to lit: the
\* passes of the strip loop and the refinement only add cells, the gap fill, the
\* closing and the dilation each cover their input, and every cell the horizon
\* step marks is shadowed in the final mask.
C28_RefinementOnlyAdds ==
    /\ [][pc = "strips" =>
             \A c \in DOMAIN shadow : (shadow[c] /\ ~dem_info.mask_nd[c]) => shadow'[c]]_vars
    /\ [](pc = "strips" =>
             /\ Covers(GapFillStrip(shadow, CurStrip, GapMax), shadow)
             /\ Covers(Closing(shadow), shadow)
             /\ \A kernel \in {2, 3} : Covers(BinaryDilate(shadow, kernel), shadow))
    /\ []((idx = 2 /\ pc = "row" /\ Len(reported) = 0) =>
             \A c \in DOMAIN shadow : HorizonMarked(c) => shadow[c])

\* a finished scan without fat shadows whose final mask holds a cell the horizon
\* step marked and a cell only the refinement added
C28_Witness ==
    /\ idx = 2 /\ pc = "row" /\ Len(created) = 1 /\ ~fat_shadow
    /\ \E c \in DOMAIN shadow : HorizonMarked(c) /\ shadow[c]
    /\ \E c \in DOMAIN shadow : ~HorizonMarked(c) /\ shadow[c] /\ ~dem_info.mask_nd[c]
    /\ \E c \in DOMAIN shadow : ~shadow[c]

\* C29: the list of created outputs grows only by the path of the current row, in
\* the step in which the writer has stored that row's raster, and every stored
\* raster is listed; a step that reports a row (skipped, failed or cancelled scan)
\* neither lists nor writes anything, and there is at most one entry per row.
C29_OutputListConsistent ==
    /\ [][/\ created' # created =>
                /\ created' = Append(created, cur.out_path)
                /\ cur.out_path \in DOMAIN files'
                /\ files'[cur.out_path] = WriteShadowMask(dem_info, shadow', cur.cval)
                /\ idx' = idx + 1
                /\ pc = "saga" \/ (pc = "strips" /\ s_idx > Geom(dem_info, cur.az).s_idx_max)
          /\ files' # files => created' = Append(created, cur.out_path)
          /\ Len(reported') > Len(reported) => (created' = created /\ files' = files)
          /\ (pc = "strips" /\ s_idx <= Geom(dem_info, cur.az).s_idx_max) =>
                (created' = created /\ files' = files)
         ]_vars
    /\ [](/\ Len(created) <= idx
          /\ pc = "row" => Len(created) < idx
          /\ \A k \in 1 .. Len(created) : created[k] \in DOMAIN files)

\* two rows done: the first has its output listed, the scan of the second was
\* cancelled inside the strip loop and left nothing
C29_Witness ==
    /\ idx = 3
    /\ Len(created) = 1
    /\ DOMAIN files = {created[1]}
    /\ Len(reported) >= 1
    /\ Last(reported) = <<"error", RowOf(rows[2]).name, MsgAborted>>

\* the cells of the current strip's list, as a set
CurStripCells == {<<CurStrip[k][2], CurStrip[k][3]>> : k \in 1 .. Len(CurStrip)}

\* C30: the cells the windowed enumeration collects for a strip are exactly the
\* non-nodata cells of the grid that satisfy the membership rule, each once.
C30_WindowComplete ==
    (pc = "strips" /\ s_idx <= Geom(dem_info, cur.az).s_idx_max) =>
        \E g \in {Geom(dem_info, cur.az)}, cells \in {CurStripCells} :
            /\ cells = {c \in DOMAIN dem_info.Z :
                           ~dem_info.mask_nd[c] /\ InStrip(g, s_idx, c[1], c[2])}
            /\ Cardinality(cells) = Len(CurStrip)

\* a strip with a cell in its list, in a grid where the window of some row leaves
\* columns out and a nodata cell of the strip is passed over
C30_Witness ==
    /\ pc = "strips" /\ s_idx <= Geom(dem_info, cur.az).s_idx_max
    /\ Len(CurStrip) >= 1
    /\ \E i \in 0 .. (dem_info.ny - 1) :
          /\ ExceedsEps(Geom(dem_info, cur.az).dS_colF)
          /\ Len(JRange(dem_info, Geom(dem_info, cur.az), s_idx, i)) \in 1 .. (dem_info.nx - 1)
    /\ \E c \in DOMAIN dem_info.Z :
          dem_info.mask_nd[c] /\ InStrip(Geom(dem_info, cur.az), s_idx, c[1], c[2])

====
